---------------------------- MODULE Spec2Model ----------------------------
(***************************************************************************)
(* A model of the aoc_2023 day binaries.  Every binary is a sequential     *)
(* program: read stdin, parse, part 1, part 2, print.  One run is modelled *)
(* by the variables below; every day has its own specification, whose Init *)
(* draws the input from a bounded set and whose actions are the steps of   *)
(* that day's functions.                                                   *)
(*                                                                         *)
(* Text is modelled as a sequence of one-character strings.                *)
(***************************************************************************)
EXTENDS Integers, Sequences, FiniteSets, TLC

VARIABLES
    prog,     \* the function or binary under execution
    build,    \* "debug" (overflow checks on) or "release" (wrapping arithmetic)
    pc,       \* position in that function
    input,    \* its input (stdin text or the arguments)
    mem,      \* its local variables, a record named after the source's locals
    stdout,   \* the lines written to standard output so far
    result    \* the value returned (or the error / panic)

vars == <<prog, build, pc, input, mem, stdout, result>>

Builds == {"debug", "release"}

\* Result<T, Oops>
Ok(v) == [ok |-> TRUE, val |-> v]
Err(msg) == [ok |-> FALSE, err |-> msg]
None == [some |-> FALSE]
Some(v) == [some |-> TRUE, val |-> v]
Panic(msg) == [panic |-> msg]
IsPanic(r) == "panic" \in DOMAIN r
\* a plain returned value
Ret(v) == [ret |-> v]

\* usize arithmetic wraps modulo 2^64 in a release build and panics in a debug
\* build.  TLC's integers are 32 bits wide, so the model wraps modulo 2^30, which
\* is far above every length, index and count it reaches.
UsizeModulus == 2^30
wrapping_sub(a, b) == (a - b) % UsizeModulus
wrapping_add(a, b) == (a + b) % UsizeModulus

Min(S) == CHOOSE x \in S : \A y \in S : x <= y
Max(S) == CHOOSE x \in S : \A y \in S : x >= y
Abs(x) == IF x < 0 THEN -x ELSE x

\* All sequences over S of length 0..n
RECURSIVE SeqsUpTo(_, _)
SeqsUpTo(S, n) ==
    IF n = 0 THEN {<<>>}
    ELSE LET shorter == SeqsUpTo(S, n - 1)
         IN shorter \cup {Append(s, x) : s \in {t \in shorter : Len(t) = n - 1}, x \in S}

\* a sequence given by a function constructor, as the tuple of its values (TLC
\* would otherwise evaluate the constructor anew at every application)
collect(s) == SubSeq(s, 1, Len(s))

\* str::split_once(' '): the text before and after the first occurrence of c
split_once(s, c) ==
    LET hits == {i \in 1..Len(s) : s[i] = c}
    IN IF hits = {} THEN None
       ELSE LET i == Min(hits)
            IN Some(<<SubSeq(s, 1, i - 1), SubSeq(s, i + 1, Len(s))>>)

Digits == {"0", "1", "2", "3", "4", "5", "6", "7", "8", "9"}

\* str::parse::<u64> on the characters the model uses: a non-empty run of digits
\* (an optional leading '+' is also accepted by Rust; the model's alphabets have none)
RECURSIVE DigitsValue(_)
DigitsValue(s) ==
    IF s = <<>> THEN 0
    ELSE 10 * DigitsValue(SubSeq(s, 1, Len(s) - 1))
         + (CHOOSE d \in 0..9 : ToString(d) = s[Len(s)])

parse_u64(s) ==
    IF s # <<>> /\ \A i \in 1..Len(s) : s[i] \in Digits
    THEN Ok(DigitsValue(s))
    ELSE Err("invalid digit")

----------------------------------------------------------------------------
(***************************************************************************)
(* Day 7: hands of cards                                                   *)
(***************************************************************************)

Joker == "Joker"

\* the match in Hand::from_str: the characters that name a card
CardOfChar == [c \in {"A", "K", "Q", "J", "T", "9", "8", "7", "6", "5", "4", "3", "2"} |-> c]

NON_JOKERS == {"A", "K", "Q", "J", "T", "9", "8", "7", "6", "5", "4", "3", "2"}

RankValue ==
    [r \in {"FiveOfAKind", "FourOfAKind", "FullHouse", "Triple", "TwoPair", "OnePair", "HighCard"} |->
        CASE r = "FiveOfAKind" -> 7 [] r = "FourOfAKind" -> 6 [] r = "FullHouse" -> 5
          [] r = "Triple" -> 4 [] r = "TwoPair" -> 3 [] r = "OnePair" -> 2 [] r = "HighCard" -> 1]

classify(cards) ==
    LET unique_cards == {cards[i] : i \in 1..5}
        count(c) == Cardinality({i \in 1..5 : cards[i] = c})
        n == Cardinality(unique_cards)
    IN CASE n = 5 -> "HighCard"
         [] n = 4 -> "OnePair"
         [] n = 3 -> IF \E c \in unique_cards : count(c) = 3 THEN "Triple" ELSE "TwoPair"
         [] n = 2 -> IF \E c \in unique_cards : count(c) = 1 THEN "FourOfAKind" ELSE "FullHouse"
         [] n = 1 -> "FiveOfAKind"

\* The loop of Hand::from_str over s.chars().enumerate(), i counted from 1 here
RECURSIVE Hand_from_str_loop(_, _, _)
Hand_from_str_loop(s, i, cards) ==
    IF i > Len(s) THEN Ok([cards |-> cards, rank |-> classify(cards)])
    ELSE IF i - 1 >= Len(cards) THEN Err("too many cards")
    ELSE IF s[i] \notin DOMAIN CardOfChar THEN Err("bad card")
    ELSE Hand_from_str_loop(s, i + 1, [cards EXCEPT ![i] = CardOfChar[s[i]]])

Hand_from_str(s) == Hand_from_str_loop(s, 1, <<Joker, Joker, Joker, Joker, Joker>>)

Line_from_str(s) ==
    LET parts == split_once(s, " ")
    IN IF ~parts.some THEN Err("invalid line")
       ELSE LET hand == Hand_from_str(parts.val[1])
                bid == parse_u64(parts.val[2])
            IN IF ~hand.ok THEN hand
               ELSE IF ~bid.ok THEN bid
               ELSE Ok([hand |-> hand.val, bid |-> bid.val])

\* Bounds of the day 7 inputs
Day07MaxLine == 7
Day07Chars == {"A", "J", "x", " ", "5"}

Day07Init ==
    /\ prog = "day07::Line::from_str"
    /\ build = "debug"   \* nothing here can overflow
    /\ pc = "call"
    /\ input \in SeqsUpTo(Day07Chars, Day07MaxLine)
    /\ mem = <<>>
    /\ stdout = <<>>
    /\ result = None

Day07ParseLine ==
    /\ prog = "day07::Line::from_str"
    /\ pc = "call"
    /\ pc' = "return"
    /\ result' = Line_from_str(input)
    /\ UNCHANGED <<prog, build, input, mem, stdout>>

Day07Next == Day07ParseLine

SpecDay07 == Day07Init /\ [][Day07Next]_vars

\* The hand token of a line and whether it is five characters naming cards
Day07HandToken == split_once(input, " ").val[1]

Day07WellFormedHand(tok) == Len(tok) = 5 /\ \A i \in 1..5 : tok[i] \in NON_JOKERS

\* C2: Day 7 hand parsing returns an error for every hand token that is not
\* exactly five card characters (too many, too few, invalid character): no line
\* with such a hand token parses to a Hand.
C2_MalformedHandRejected ==
    (pc = "return" /\ split_once(input, " ").some
        /\ ~Day07WellFormedHand(Day07HandToken))
    => ~result.ok

\* the same for the hands the code does reject: too many cards, or a bad character
C2_TooManyOrBadCharRejected ==
    (pc = "return" /\ split_once(input, " ").some
        /\ (Len(Day07HandToken) > 5 \/ \E i \in 1..Len(Day07HandToken) : Day07HandToken[i] \notin NON_JOKERS))
    => ~result.ok

\* a run that parsed a line whose hand has fewer than five cards into a Hand
C2_ShortHandAccepted ==
    /\ pc = "return"
    /\ split_once(input, " ").some
    /\ Len(Day07HandToken) < 5
    /\ result.ok

----------------------------------------------------------------------------
(***************************************************************************)
(* Day 9: extrapolation by difference rows.  solve is run step by step:    *)
(* one action per iteration of its for loop.                               *)
(***************************************************************************)

Reverse(s) == [i \in 1..Len(s) |-> s[Len(s) + 1 - i]]

\* zip(accum[i].iter(), accum[i].iter().skip(1)).map(|(a, b)| b - a)
day09_next_line(row) == [k \in 1..(Len(row) - 1) |-> row[k + 1] - row[k]]

\* accum.iter().rev().fold(0, |diff, seq| seq.last().unwrap() + diff);
\* last() of an empty row is None and the unwrap panics
RECURSIVE day09_sum_last(_, _)
day09_sum_last(accum, n) ==
    IF n = 0 THEN 0 ELSE accum[n][Len(accum[n])] + day09_sum_last(accum, n - 1)

day09_fold(accum) ==
    IF \E k \in 1..Len(accum) : accum[k] = <<>>
    THEN Panic("called Option::unwrap() on a None value")
    ELSE Ret(day09_sum_last(accum, Len(accum)))

\* Bounds of the day 9 inputs
Day09MaxLen == 4
Day09MaxVal == 2
Day09Values == (0 - 1)..Day09MaxVal

Day09Init ==
    /\ prog \in {"day09::part1", "day09::part2"}
    /\ build \in Builds
    /\ pc = "call"
    /\ input \in SeqsUpTo(Day09Values, Day09MaxLen)
    /\ mem = <<>>
    /\ stdout = <<>>
    /\ result = None

\* part1 hands history.iter() to solve, part2 history.iter().rev();
\* solve starts with accum = [seq] and the loop bound accum[0].len() - 1
Day09SolveEnter ==
    /\ pc = "call"
    /\ LET seq == IF prog = "day09::part2" THEN Reverse(input) ELSE input
       IN IF Len(seq) = 0 /\ build = "debug"
          THEN /\ pc' = "panic"
               /\ result' = Panic("attempt to subtract with overflow")
               /\ mem' = [accum |-> <<seq>>, i |-> 0, bound |-> 0]
          ELSE /\ pc' = "loop"
               /\ mem' = [accum |-> <<seq>>, i |-> 0,
                          bound |-> wrapping_sub(Len(seq), 1)]
               /\ UNCHANGED result
    /\ UNCHANGED <<prog, build, input, stdout>>

\* one iteration of `for i in 0..accum[0].len() - 1`
Day09SolveRow ==
    /\ pc = "loop"
    /\ mem.i < mem.bound
    /\ LET next_line == day09_next_line(mem.accum[mem.i + 1])
           done == \A k \in 1..Len(next_line) : next_line[k] = 0
           accum == Append(mem.accum, next_line)
       IN /\ mem' = [mem EXCEPT !.accum = accum, !.i = mem.i + 1]
          /\ IF done
             THEN LET r == day09_fold(accum)
                  IN /\ result' = r
                     /\ pc' = IF IsPanic(r) THEN "panic" ELSE "return"
             ELSE UNCHANGED <<pc, result>>
    /\ UNCHANGED <<prog, build, input, stdout>>

\* the loop ran out: unreachable!()
Day09SolveUnreachable ==
    /\ pc = "loop"
    /\ mem.i >= mem.bound
    /\ pc' = "panic"
    /\ result' = Panic("internal error: entered unreachable code")
    /\ UNCHANGED <<prog, build, input, mem, stdout>>

Day09Next == Day09SolveEnter \/ Day09SolveRow \/ Day09SolveUnreachable

SpecDay09 == Day09Init /\ [][Day09Next]_vars

\* The extrapolated next value of the difference table: the last element of the
\* history plus that of every difference row, down to the first all-zero row
RECURSIVE Day09Extrapolate(_)
Day09Extrapolate(h) ==
    IF \A k \in 1..Len(h) : h[k] = 0 THEN 0
    ELSE h[Len(h)] + Day09Extrapolate(day09_next_line(h))

\* C8: for every history of one or more integers solve returns, without
\* panicking, the extrapolated next value of the difference table (part2: of the
\* reversed history).
C8_SolveExtrapolates ==
    (pc \in {"return", "panic"} /\ Len(input) >= 1)
    => /\ pc = "return"
       /\ result = Ret(Day09Extrapolate(IF prog = "day09::part2" THEN Reverse(input) ELSE input))

\* what does hold: whenever solve returns, it returns the extrapolated value
C8_ReturnedValueIsExtrapolation ==
    (pc = "return" /\ Len(input) >= 1)
    => result = Ret(Day09Extrapolate(IF prog = "day09::part2" THEN Reverse(input) ELSE input))

\* solve ran into unreachable!() on a history of one or more integers
C8_UnreachableReached ==
    /\ pc = "panic"
    /\ Len(input) >= 1
    /\ result = Panic("internal error: entered unreachable code")

----------------------------------------------------------------------------
(***************************************************************************)
(* Day 8: ghosts walking a network.  A node name is a sequence of          *)
(* characters; part2 is run step by step: one action per step of a walk,   *)
(* one per call of the fold closure, one for the final product.            *)
(***************************************************************************)

ends_with(name, c) == Len(name) > 0 /\ name[Len(name)] = c

\* the factorisation loop of the fold closure: while factor <= num { .. }
RECURSIVE day08_factorize(_, _, _)
day08_factorize(num, factor, factors) ==
    IF factor <= num
    THEN IF num % factor = 0
         THEN day08_factorize(num \div factor, factor,
                  IF factor \in DOMAIN factors
                  THEN [factors EXCEPT ![factor] = @ + 1]
                  ELSE factors @@ (factor :> 1))
         ELSE day08_factorize(num, factor + 1, factors)
    ELSE factors

\* for (factor, count) in factors { m.entry(factor).and_modify(max).or_insert(count) }
day08_merge(m, factors) ==
    [f \in DOMAIN m \cup DOMAIN factors |->
        IF f \notin DOMAIN m THEN factors[f]
        ELSE IF f \in DOMAIN factors /\ factors[f] > m[f] THEN factors[f]
        ELSE m[f]]

RECURSIVE ProductOver(_, _)
ProductOver(S, f) ==
    IF S = {} THEN 1
    ELSE LET x == CHOOSE y \in S : TRUE IN f[x] * ProductOver(S \ {x}, f)

\* factors.iter().map(|(k, v)| k * v).product()
day08_product(m) == ProductOver(DOMAIN m, [k \in DOMAIN m |-> k * m[k]])

\* Bounds of the day 8 inputs: the number of start nodes and the length of the
\* chain from a start node to its Z node
Day08MaxGhosts == 2
Day08MaxChain == 9
Day08Directions == {<<"L">>, <<"L", "R">>, <<"R", "L", "L">>}

Day08XXX == <<"X", "X", "X">>
Day08Name(g, j, sfx) == <<ToString(g), ToString(j), sfx>>
Day08ChainName(g, j, len) ==
    Day08Name(g, j, IF j = 0 THEN "A" ELSE IF j = len THEN "Z" ELSE "X")

\* A network in the manner of the test's SAMPLE2: ghost g walks a chain of
\* len[g] nodes from gA to gZ; at the j-th node the exit the direction list names
\* leads on, the other exit leads to the sink XXX.
Day08Chains(directions, len) ==
    LET ghosts == DOMAIN len
        names == {Day08ChainName(g, j, len[g]) : g \in ghosts, j \in 0..Day08MaxChain}
        chain == {n \in names : \E g \in ghosts : \E j \in 0..len[g] : n = Day08ChainName(g, j, len[g])}
        node(g, j) ==
            LET next == Day08ChainName(g, IF j = len[g] THEN 0 ELSE j + 1, len[g])
                dir == directions[(j % Len(directions)) + 1]
            IN IF dir = "L" THEN [left |-> next, right |-> Day08XXX]
               ELSE [left |-> Day08XXX, right |-> next]
    IN [directions |-> directions,
        nodes |-> [n \in chain \cup {Day08XXX} |->
            IF n = Day08XXX THEN [left |-> Day08XXX, right |-> Day08XXX]
            ELSE LET g == CHOOSE g \in ghosts : \E j \in 0..len[g] : n = Day08ChainName(g, j, len[g])
                     j == CHOOSE j \in 0..len[g] : n = Day08ChainName(g, j, len[g])
                 IN node(g, j)]]

Day08Init ==
    /\ prog = "day08::part2"
    /\ build = "debug"   \* the step counts and products stay far below 2^64
    /\ pc = "next"
    /\ \E directions \in Day08Directions : \E n \in 1..Day08MaxGhosts :
          \E len \in [1..n -> 1..Day08MaxChain] :
             input = Day08Chains(directions, len)
    /\ mem = [todo |-> {k \in DOMAIN input.nodes : ends_with(k, "A")},
              current |-> <<>>, step |-> 0, m |-> <<>>]
    /\ stdout = <<>>
    /\ result = None

\* currents.iter_mut().map(..): the next start node, in the HashMap's (arbitrary) order
Day08PickStart ==
    /\ pc = "next"
    /\ \E s \in mem.todo :
          mem' = [mem EXCEPT !.todo = @ \ {s}, !.current = s, !.step = 0]
    /\ pc' = "walk"
    /\ UNCHANGED <<prog, build, input, stdout, result>>

\* one iteration of `for (step, dir) in zip(1u64.., directions.iter().cycle())`
Day08WalkStep ==
    /\ pc = "walk"
    /\ mem.step < 2 * Day08MaxChain
    /\ LET dir == input.directions[(mem.step % Len(input.directions)) + 1]
           step == mem.step + 1
       IN IF mem.current \notin DOMAIN input.nodes
          THEN /\ pc' = "panic"
               /\ result' = Panic("called Option::unwrap() on a None value")
               /\ UNCHANGED mem
          ELSE LET node == input.nodes[mem.current]
                   current == IF dir = "L" THEN node.left ELSE node.right
               IN /\ mem' = [mem EXCEPT !.current = current, !.step = step]
                  /\ pc' = IF ends_with(current, "Z") THEN "fold" ELSE "walk"
                  /\ UNCHANGED result
    /\ UNCHANGED <<prog, build, input, stdout>>

\* the fold closure on the step count the walk returned
Day08Fold ==
    /\ pc = "fold"
    /\ mem' = [mem EXCEPT !.m = day08_merge(mem.m, day08_factorize(mem.step, 2, <<>>))]
    /\ pc' = "next"
    /\ UNCHANGED <<prog, build, input, stdout, result>>

Day08Product ==
    /\ pc = "next"
    /\ mem.todo = {}
    /\ result' = Ret(day08_product(mem.m))
    /\ pc' = "return"
    /\ UNCHANGED <<prog, build, input, mem, stdout>>

Day08Next == Day08PickStart \/ Day08WalkStep \/ Day08Fold \/ Day08Product

SpecDay08 == Day08Init /\ [][Day08Next]_vars

\* The node reached from s after n steps along the cyclically repeated directions
RECURSIVE Day08After(_, _, _)
Day08After(puzzle, s, n) ==
    IF n = 0 THEN s
    ELSE LET at == Day08After(puzzle, s, n - 1)
             dir == puzzle.directions[((n - 1) % Len(puzzle.directions)) + 1]
         IN IF dir = "L" THEN puzzle.nodes[at].left ELSE puzzle.nodes[at].right

\* n_s: the first step number at which the walk from s stands on a Z node
Day08FirstZ(puzzle, s) ==
    Min({n \in 1..(2 * Day08MaxChain) : ends_with(Day08After(puzzle, s, n), "Z")})

Day08StepCounts(puzzle) ==
    {Day08FirstZ(puzzle, s) : s \in {k \in DOMAIN puzzle.nodes : ends_with(k, "A")}}

\* the least positive integer every member of S divides
LeastCommonMultiple(S) ==
    Min({m \in 1..ProductOver(S, [x \in S |-> x]) : \A x \in S : m % x = 0})

\* C5: Day 8 part2 returns the least common multiple of the step counts n_s of
\* the start nodes, for every set of step counts, repeated prime factors included.
C5_Part2IsLcm ==
    (pc = "return") => result = Ret(LeastCommonMultiple(Day08StepCounts(input)))

\* the same where every step count has only prime factors of multiplicity 1, or
\* 2 with multiplicity 2 (there k * v = k^v)
C5_Part2IsLcmSquareFree ==
    (pc = "return" /\ \A n \in Day08StepCounts(input) :
                          n % 8 # 0 /\ \A q \in 3..n : n % (q * q) # 0)
    => result = Ret(LeastCommonMultiple(Day08StepCounts(input)))

\* part2 returned for a network in which a ghost needs 8 steps
C5_EightStepsReturned == pc = "return" /\ 8 \in Day08StepCounts(input)

----------------------------------------------------------------------------
(***************************************************************************)
(* Day 11: distances between galaxies in an expanding image.  An image is  *)
(* a sequence of rows, a point is a record [x, y] counted from 0.          *)
(***************************************************************************)

\* geometry::Point2
Point2(x, y) == [x |-> x, y |-> y]
manhattan_distance(a, b) == Abs(a.x - b.x) + Abs(a.y - b.y)

RECURSIVE SumSeq(_)
SumSeq(q) == IF q = <<>> THEN 0 ELSE q[1] + SumSeq(Tail(q))

RECURSIVE Flatten(_)
Flatten(qq) == IF qq = <<>> THEN <<>> ELSE qq[1] \o Flatten(Tail(qq))

\* the points of the characters c of the text, line by line, left to right
PointsOf(lines, c) ==
    Flatten([r \in 1..Len(lines) |->
        LET hits == {k \in 1..Len(lines[r]) : lines[r][k] = c}
            RECURSIVE ascending(_)
            ascending(S) == IF S = {} THEN <<>>
                            ELSE <<Point2(Min(S) - 1, r - 1)>> \o ascending(S \ {Min(S)})
        IN ascending(hits)])

\* zip(empty_set, 0i32..).collect(): every key with its rank in the ordered set
day11_adjustments(keys) == [k \in keys |-> Cardinality({j \in keys : j < k})]

day11_from_str(lines) ==
    LET galaxies == PointsOf(lines, "#")
        height == Max({0} \cup {r - 1 : r \in 1..Len(lines)}) + 1
        width == height
        xs == {galaxies[i].x : i \in 1..Len(galaxies)}
        ys == {galaxies[i].y : i \in 1..Len(galaxies)}
    IN [galaxies |-> galaxies,
        empty_cols |-> day11_adjustments(((0 - 1)..(width - 1)) \ xs),
        empty_rows |-> day11_adjustments(((0 - 1)..(height - 1)) \ ys)]

\* map.range(-1..=k).next_back().unwrap().1
day11_range_back(map, k) == map[Max({j \in DOMAIN map : (0 - 1) <= j /\ j <= k})]

adjust_point_for_expansion_factor(puzzle, point, factor) ==
    LET x_adj == day11_range_back(puzzle.empty_cols, point.x)
        y_adj == day11_range_back(puzzle.empty_rows, point.y)
    IN Point2(point.x + x_adj * (factor - 1), point.y + y_adj * (factor - 1))

solve_with_expansion_factor(puzzle, factor) ==
    LET memoized == [i \in 1..Len(puzzle.galaxies) |->
                        adjust_point_for_expansion_factor(puzzle, puzzle.galaxies[i], factor)]
    IN SumSeq(Flatten([i \in 1..Len(memoized) |->
            [k \in 1..(Len(memoized) - i) |->
                manhattan_distance(memoized[i], memoized[i + k])]]))

\* Bounds of the day 11 inputs
Day11MaxWidth == 3
Day11MaxHeight == 3
Day11Factors == {1, 2, 10}

Day11Init ==
    /\ prog = "day11::solve_with_expansion_factor"
    /\ build = "debug"   \* the coordinates stay far below 2^31
    /\ pc = "parse"
    /\ \E w \in 1..Day11MaxWidth : \E h \in 1..Day11MaxHeight :
          \E image \in [1..h -> [1..w -> {".", "#"}]] : \E factor \in Day11Factors :
             input = [image |-> image, factor |-> factor]
    /\ mem = <<>>
    /\ stdout = <<>>
    /\ result = None

Day11Parse ==
    /\ pc = "parse"
    /\ mem' = [puzzle |-> day11_from_str(input.image)]
    /\ pc' = "solve"
    /\ UNCHANGED <<prog, build, input, stdout, result>>

Day11Solve ==
    /\ pc = "solve"
    /\ result' = Ret(solve_with_expansion_factor(mem.puzzle, input.factor))
    /\ pc' = "return"
    /\ UNCHANGED <<prog, build, input, mem, stdout>>

Day11Next == Day11Parse \/ Day11Solve

SpecDay11 == Day11Init /\ [][Day11Next]_vars

\* The claimed sum, from the image alone: over all unordered pairs of galaxies,
\* |dx| + |dy| + (f - 1) * (galaxy-free columns and rows strictly between them)
Day11Expected(image, f) ==
    LET h == Len(image)
        w == Len(image[1])
        G == {p \in [x : 0..(w - 1), y : 0..(h - 1)] : image[p.y + 1][p.x + 1] = "#"}
        freeCol(x) == \A p \in G : p.x # x
        freeRow(y) == \A p \in G : p.y # y
        between(a, b) == {k \in 0..(w + h) : (a < k /\ k < b) \/ (b < k /\ k < a)}
        dist(p, q) == Abs(p.x - q.x) + Abs(p.y - q.y)
            + (f - 1) * (Cardinality({x \in between(p.x, q.x) : freeCol(x)})
                         + Cardinality({y \in between(p.y, q.y) : freeRow(y)}))
        pairs == {pq \in G \X G : pq[1].y < pq[2].y \/ (pq[1].y = pq[2].y /\ pq[1].x < pq[2].x)}
        RECURSIVE total(_)
        total(S) == IF S = {} THEN 0
                    ELSE LET pq == CHOOSE e \in S : TRUE
                         IN dist(pq[1], pq[2]) + total(S \ {pq})
    IN total(pairs)

\* C7: Day 11, for every rectangular image and factor f >= 1,
\* solve_with_expansion_factor returns the sum over all unordered galaxy pairs of
\* |dx| + |dy| + (f - 1) * (galaxy-free columns and rows strictly between).
C7_SolveIsExpandedDistanceSum ==
    (pc = "return") => result = Ret(Day11Expected(input.image, input.factor))

\* the same for the images that are not wider than high
C7_SolveIsExpandedDistanceSumNotWide ==
    (pc = "return" /\ Len(input.image[1]) <= Len(input.image))
    => result = Ret(Day11Expected(input.image, input.factor))

\* solve returned for an image wider than high in which two galaxies have a
\* galaxy-free column between them, under a factor above 1
C7_WideImageSolved ==
    /\ pc = "return"
    /\ Len(input.image[1]) > Len(input.image)
    /\ input.factor > 1
    /\ \E i, j \in 1..Len(mem.puzzle.galaxies) : mem.puzzle.galaxies[j].x - mem.puzzle.galaxies[i].x > 1

----------------------------------------------------------------------------
(***************************************************************************)
(* Day 16: a beam of light through mirrors and splitters.  puzzle.spaces   *)
(* is a function from the points of the grid to the space there.  part2 is *)
(* run step by step: one action per item of its two chained iterators.     *)
(***************************************************************************)

\* the match of Puzzle::from_str
day16_space(c) ==
    CASE c = "/" -> "AntiDiagonalMirror"
      [] c = "\\" -> "DiagonalMirror"
      [] c = "|" -> "VerticalSplitter"
      [] c = "-" -> "HorizontalSplitter"
      [] c = "." -> "Empty"

day16_from_str(lines) ==
    [spaces |-> [p \in {Point2(x, y) : x \in 0..(Len(lines[1]) - 1), y \in 0..(Len(lines) - 1)} |->
                    day16_space(lines[p.y + 1][p.x + 1])]]

Cursor(position, direction) == [position |-> position, direction |-> direction]

\* the directions in which a beam heading `direction` leaves a space
day16_out(space, direction) ==
    CASE space = "VerticalSplitter" /\ direction \in {"Left", "Right"} -> <<"Up", "Down">>
      [] space = "HorizontalSplitter" /\ direction \in {"Up", "Down"} -> <<"Left", "Right">>
      [] space = "DiagonalMirror" ->
            <<CASE direction = "Up" -> "Left" [] direction = "Right" -> "Down"
                [] direction = "Down" -> "Right" [] direction = "Left" -> "Up">>
      [] space = "AntiDiagonalMirror" ->
            <<CASE direction = "Up" -> "Right" [] direction = "Left" -> "Down"
                [] direction = "Down" -> "Left" [] direction = "Right" -> "Up">>
      [] OTHER -> <<direction>>

day16_next_position(position, direction) ==
    CASE direction = "Up" -> Point2(position.x, position.y - 1)
      [] direction = "Right" -> Point2(position.x + 1, position.y)
      [] direction = "Down" -> Point2(position.x, position.y + 1)
      [] direction = "Left" -> Point2(position.x - 1, position.y)

\* the while-let loop of energize over the queue `cursors`
RECURSIVE day16_energize_loop(_, _, _)
day16_energize_loop(puzzle, cursors, visited) ==
    IF cursors = <<>> THEN visited
    ELSE LET next_position == day16_next_position(cursors[1].position, cursors[1].direction)
         IN IF next_position \notin DOMAIN puzzle.spaces
            THEN day16_energize_loop(puzzle, Tail(cursors), visited)
            ELSE LET outs == day16_out(puzzle.spaces[next_position], cursors[1].direction)
                     c1 == Cursor(next_position, outs[1])
                     new1 == IF c1 \in visited THEN <<>> ELSE <<c1>>
                     v1 == visited \cup {c1}
                     new2 == IF Len(outs) = 2 /\ Cursor(next_position, outs[2]) \notin v1
                             THEN <<Cursor(next_position, outs[2])>> ELSE <<>>
                     v2 == IF Len(outs) = 2 THEN v1 \cup {Cursor(next_position, outs[2])} ELSE v1
                 IN day16_energize_loop(puzzle, Tail(cursors) \o new1 \o new2, v2)

energize(puzzle, initial_cursor) ==
    Cardinality({c.position : c \in day16_energize_loop(puzzle, <<initial_cursor>>, {})})

\* geometry::Bounds2::from_points: the smallest and the largest coordinates
Bounds2_from_points(points) ==
    [min |-> Point2(Min({p.x : p \in points}), Min({p.y : p \in points})),
     max |-> Point2(Max({p.x : p \in points}), Max({p.y : p \in points}))]

\* the item of (bounds.min.y..bounds.max.y).map(..) for y
day16_row_item(puzzle, bounds, y) ==
    Max({energize(puzzle, Cursor(Point2(bounds.min.x - 1, y), "Right")),
         energize(puzzle, Cursor(Point2(bounds.max.x + 1, y), "Right"))})

\* the item of (bounds.min.x..bounds.max.x).map(..) for x
day16_col_item(puzzle, bounds, x) ==
    Max({energize(puzzle, Cursor(Point2(x, bounds.min.y - 1), "Down")),
         energize(puzzle, Cursor(Point2(x, bounds.max.y + 1), "Up"))})

\* Bounds of the day 16 inputs
Day16MaxWidth == 3
Day16MaxHeight == 2
Day16Chars == {"/", "\\", "|", "-", "."}

Day16Init ==
    /\ prog = "day16::part2"
    /\ build = "debug"   \* the coordinates stay far below 2^31
    /\ pc = "bounds"
    /\ \E w \in 1..Day16MaxWidth : \E h \in 1..Day16MaxHeight :
          input \in [1..h -> [1..w -> Day16Chars]]
    /\ mem = [puzzle |-> day16_from_str(input)]
    /\ stdout = <<>>
    /\ result = None

\* let bounds = ..; println!("{bounds:?}");
Day16Bounds ==
    /\ pc = "bounds"
    /\ LET bounds == Bounds2_from_points(DOMAIN mem.puzzle.spaces)
       IN /\ mem' = [puzzle |-> mem.puzzle, bounds |-> bounds,
                     y |-> bounds.min.y, x |-> bounds.min.x, max |-> None]
          /\ stdout' = Append(stdout, <<"bounds", bounds>>)
    /\ pc' = "rows"
    /\ UNCHANGED <<prog, build, input, result>>

day16_fold_max(acc, item) == IF acc.some /\ acc.val > item THEN acc ELSE Some(item)

\* the next item of the first iterator, folded into max()
Day16Row ==
    /\ pc = "rows"
    /\ IF mem.y < mem.bounds.max.y
       THEN /\ mem' = [mem EXCEPT !.y = @ + 1,
                          !.max = day16_fold_max(@, day16_row_item(mem.puzzle, mem.bounds, mem.y))]
            /\ UNCHANGED pc
       ELSE /\ pc' = "cols"
            /\ UNCHANGED mem
    /\ UNCHANGED <<prog, build, input, stdout, result>>

\* the next item of the chained iterator; at its end, max().unwrap()
Day16Col ==
    /\ pc = "cols"
    /\ IF mem.x < mem.bounds.max.x
       THEN /\ mem' = [mem EXCEPT !.x = @ + 1,
                          !.max = day16_fold_max(@, day16_col_item(mem.puzzle, mem.bounds, mem.x))]
            /\ UNCHANGED <<pc, result>>
       ELSE /\ UNCHANGED mem
            /\ IF mem.max.some
               THEN pc' = "return" /\ result' = Ret(mem.max.val)
               ELSE pc' = "panic" /\ result' = Panic("called Option::unwrap() on a None value")
    /\ UNCHANGED <<prog, build, input, stdout>>

Day16Next == Day16Bounds \/ Day16Row \/ Day16Col

SpecDay16 == Day16Init /\ [][Day16Next]_vars

\* The claimed entry configurations: every row from the left heading right and
\* from the right heading left, every column from the top heading down and from
\* the bottom heading up
Day16Entries(lines) ==
    LET w == Len(lines[1])
        h == Len(lines)
    IN {Cursor(Point2(0 - 1, y), "Right") : y \in 0..(h - 1)}
       \cup {Cursor(Point2(w, y), "Left") : y \in 0..(h - 1)}
       \cup {Cursor(Point2(x, 0 - 1), "Down") : x \in 0..(w - 1)}
       \cup {Cursor(Point2(x, h), "Up") : x \in 0..(w - 1)}

\* C4: Day 16 part2 returns the maximum of energize over every entry
\* configuration on the border of the grid (all rows from both sides, all columns
\* from both ends).
C4_Part2IsMaxOverBorder ==
    (pc \in {"return", "panic"})
    => result = Ret(Max({energize(mem.puzzle, c) : c \in Day16Entries(input)}))

\* what part2 does return: the maximum over the rows but the last entered from
\* the left and the columns but the last entered from either end
C4_Part2IsMaxOverPartOfBorder ==
    (pc = "return")
    => result = Ret(Max({energize(mem.puzzle, c) :
                            c \in {e \in Day16Entries(input) :
                                     /\ e.direction # "Left"
                                     /\ e.direction = "Right" => e.position.y < Len(input) - 1
                                     /\ e.direction \in {"Up", "Down"} => e.position.x < Len(input[1]) - 1}}))

\* part2 returned a value although a beam entering from the right energizes more
C4_RightEntryBeatsResult ==
    /\ pc = "return"
    /\ \E y \in 0..(Len(input) - 1) :
          energize(mem.puzzle, Cursor(Point2(Len(input[1]), y), "Left")) > result.ret

----------------------------------------------------------------------------
(***************************************************************************)
(* Day 5: seed ranges through range maps.  A Range is [begin, end) and a   *)
(* mapping is a BTreeMap<Range, u64>: a function from its key ranges to    *)
(* the destination starts, iterated in the order of Range::cmp.            *)
(***************************************************************************)

Range(begin, end) == [begin |-> begin, end |-> end]

contains_position(self, position) == self.begin <= position /\ position < self.end

contains_range(self, other) == self.begin <= other.begin /\ other.end <= self.end

\* Range::cmp: by end, then by begin
Range_le(a, b) == a.end < b.end \/ (a.end = b.end /\ a.begin <= b.begin)

\* mapping.range(from..): the entries whose key is >= from, in ascending order
RECURSIVE day05_ascending(_)
day05_ascending(keys) ==
    IF keys = {} THEN <<>>
    ELSE LET k == CHOOSE a \in keys : \A b \in keys : Range_le(a, b)
         IN <<k>> \o day05_ascending(keys \ {k})

BTreeMap_range_from(mapping, from) ==
    day05_ascending({k \in DOMAIN mapping : Range_le(from, k)})

apply_mapping(src, mapping) ==
    LET found == BTreeMap_range_from(mapping, Range(src, src))
    IN IF found # <<>>
       THEN IF src >= found[1].begin THEN (src - found[1].begin) + mapping[found[1]] ELSE src
       ELSE src

\* the for loop over overlapping_ranges for one original_range, from index i on
RECURSIVE day05_overlap_loop(_, _, _, _, _)
day05_overlap_loop(original_range, mapping, overlapping_ranges, i, new_ranges) ==
    IF i > Len(overlapping_ranges) THEN new_ranges
    ELSE LET key == overlapping_ranges[i]
             dst == mapping[key]
         IN IF original_range.end < key.begin THEN new_ranges
            ELSE IF contains_range(key, original_range)
            THEN Append(new_ranges, Range(original_range.begin - key.begin + dst,
                                          original_range.end - key.begin + dst))
            ELSE IF contains_range(original_range, key)
            THEN day05_overlap_loop(original_range, mapping, overlapping_ranges, i + 1,
                     Append(new_ranges, Range(dst, dst + key.end - key.begin)))
            ELSE IF contains_position(key, original_range.begin)
            THEN day05_overlap_loop(original_range, mapping, overlapping_ranges, i + 1,
                     Append(new_ranges,
                            Range(dst + original_range.begin - key.begin,
                                  dst + original_range.begin - key.begin + key.end - original_range.begin)))
            ELSE IF contains_position(key, original_range.end)
            THEN Append(new_ranges, Range(dst, dst + original_range.end - key.begin))
            ELSE Append(new_ranges, Panic("internal error: entered unreachable code"))

\* the body of `for original_range in ranges`
day05_map_one(original_range, mapping, new_ranges) ==
    LET overlapping_ranges ==
            BTreeMap_range_from(mapping, Range(original_range.begin, original_range.begin))
    IN IF overlapping_ranges = <<>> THEN Append(new_ranges, original_range)
       ELSE LET first == overlapping_ranges[1]
                last == overlapping_ranges[Len(overlapping_ranges)]
                before == IF original_range.begin < first.begin
                          THEN Append(new_ranges, Range(original_range.begin, first.begin))
                          ELSE new_ranges
                mapped == day05_overlap_loop(original_range, mapping, overlapping_ranges, 1, before)
            IN IF original_range.end > last.end
               THEN Append(mapped, Range(last.end, original_range.end))
               ELSE mapped

RECURSIVE day05_ranges_loop(_, _, _)
day05_ranges_loop(ranges, mapping, new_ranges) ==
    IF ranges = <<>> THEN new_ranges
    ELSE day05_ranges_loop(Tail(ranges), mapping, day05_map_one(ranges[1], mapping, new_ranges))

apply_mapping_to_ranges(ranges, mapping) == day05_ranges_loop(ranges, mapping, <<>>)

\* Bounds of the day 5 inputs: the positions are 0..Day05MaxPos, a map has at
\* most Day05MaxEntries lines, the almanac at most Day05MaxMaps maps, of which
\* those after the first have at most one line
Day05MaxPos == 3
Day05MaxEntries == 2
Day05MaxMaps == 2

Day05Ranges == {r \in [begin : 0..Day05MaxPos, end : 1..(Day05MaxPos + 1)] : r.begin < r.end}

\* the maps parse_mappings builds from lines "dst src len" with len >= 1 whose
\* source ranges are pairwise disjoint
Day05Maps(maxEntries) ==
    UNION {{f \in [keys -> 0..Day05MaxPos] : TRUE} :
              keys \in {K \in SUBSET Day05Ranges :
                           /\ Cardinality(K) <= maxEntries
                           /\ \A a, b \in K : a # b => (a.end <= b.begin \/ b.end <= a.begin)}}

Day05Init ==
    /\ prog = "day05::part2"
    /\ build = "debug"   \* the positions stay far below 2^64
    /\ pc = "pair"
    /\ \E seed \in Day05Ranges : \E first \in Day05Maps(Day05MaxEntries) :
          \E rest \in SeqsUpTo(Day05Maps(1), Day05MaxMaps - 1) :
             input = [seeds |-> <<seed.begin, seed.end - seed.begin>>,
                      mappings |-> <<first>> \o rest]
    /\ mem = [pair |-> 1, current_ranges |-> <<>>, mapping |-> 1, min |-> None]
    /\ stdout = <<>>
    /\ result = None

\* the closure of part2 for the next (seed, range) pair: its first statement
Day05Pair ==
    /\ pc = "pair"
    /\ 2 * mem.pair <= Len(input.seeds)
    /\ LET seed == input.seeds[2 * mem.pair - 1]
           range == input.seeds[2 * mem.pair]
       IN mem' = [mem EXCEPT !.current_ranges = <<Range(seed, seed + range)>>, !.mapping = 1]
    /\ pc' = "mappings"
    /\ UNCHANGED <<prog, build, input, stdout, result>>

\* one iteration of `for mapping in &puzzle.mappings`
Day05ApplyMapping ==
    /\ pc = "mappings"
    /\ mem.mapping <= Len(input.mappings)
    /\ LET new_ranges == apply_mapping_to_ranges(mem.current_ranges, input.mappings[mem.mapping])
       IN IF \E i \in 1..Len(new_ranges) : IsPanic(new_ranges[i])
          THEN /\ pc' = "panic"
               /\ result' = Panic("internal error: entered unreachable code")
               /\ UNCHANGED mem
          ELSE /\ mem' = [mem EXCEPT !.current_ranges = new_ranges, !.mapping = @ + 1]
               /\ UNCHANGED <<pc, result>>
    /\ UNCHANGED <<prog, build, input, stdout>>

\* current_ranges.into_iter().map(|range| range.begin).min().unwrap(), folded
\* into the outer min()
Day05PairMin ==
    /\ pc = "mappings"
    /\ mem.mapping > Len(input.mappings)
    /\ LET least == Min({mem.current_ranges[i].begin : i \in 1..Len(mem.current_ranges)})
       IN mem' = [mem EXCEPT !.pair = @ + 1,
                     !.min = IF @.some /\ @.val <= least THEN @ ELSE Some(least)]
    /\ pc' = "pair"
    /\ UNCHANGED <<prog, build, input, stdout, result>>

\* .min().expect("no seeds")
Day05Min ==
    /\ pc = "pair"
    /\ 2 * mem.pair > Len(input.seeds)
    /\ IF mem.min.some
       THEN pc' = "return" /\ result' = Ret(mem.min.val)
       ELSE pc' = "panic" /\ result' = Panic("no seeds")
    /\ UNCHANGED <<prog, build, input, mem, stdout>>

Day05Next == Day05Pair \/ Day05ApplyMapping \/ Day05PairMin \/ Day05Min

SpecDay05 == Day05Init /\ [][Day05Next]_vars

\* puzzle.mappings.iter().fold(seed, apply_mapping) over the first n maps
RECURSIVE day05_fold(_, _, _)
day05_fold(seed, mappings, n) ==
    IF n = 0 THEN seed ELSE apply_mapping(day05_fold(seed, mappings, n - 1), mappings[n])

\* the brute-force minimum over every seed value of every seed pair
Day05BruteForce(puzzle) ==
    Min({day05_fold(v, puzzle.mappings, Len(puzzle.mappings)) :
            v \in UNION {puzzle.seeds[2 * k - 1]..(puzzle.seeds[2 * k - 1] + puzzle.seeds[2 * k] - 1) :
                            k \in 1..(Len(puzzle.seeds) \div 2)}})

\* C6: Day 5 part2 equals the brute-force minimum over every seed value of every
\* seed pair of the location the part 1 pipeline gives, for every almanac whose
\* map source ranges are pairwise disjoint within each map.
C6_Part2IsBruteForceMin ==
    (pc \in {"return", "panic"}) => result = Ret(Day05BruteForce(input))

Day05Union(ranges) == UNION {ranges[i].begin..(ranges[i].end - 1) : i \in 1..Len(ranges)}

\* C6, equivalent form: after each map the union of current_ranges is exactly
\* the image under the maps so far of the seed range
C6_RangesAreImage ==
    (pc = "mappings" /\ mem.mapping > 1)
    => Day05Union(mem.current_ranges)
         = {day05_fold(v, input.mappings, mem.mapping - 1) :
               v \in input.seeds[1]..(input.seeds[1] + input.seeds[2] - 1)}

\* part2 returned a location below the brute-force minimum
C6_Part2BelowBruteForce ==
    /\ pc = "return"
    /\ result.ret < Day05BruteForce(input)

----------------------------------------------------------------------------
(***************************************************************************)
(* Day 12: arrangements of damaged springs.  Indices are counted from 0 as *)
(* in the source; the character at index k of spring is spring[k + 1].     *)
(* recursive_solve returns [ret, memoizer, spring] (the count, and the     *)
(* memo and the spring buffer as the call leaves them) or a panic.         *)
(***************************************************************************)

Memoize(unknowns_assigned, matched_until, records_matched) ==
    <<unknowns_assigned, matched_until, records_matched>>

\* memoizer.insert(key, count); return count
day12_insert_return(memoizer, key, count, spring) ==
    [ret |-> count,
     memoizer |-> [k \in DOMAIN memoizer \cup {key} |-> IF k = key THEN count ELSE memoizer[k]],
     spring |-> spring]

\* the exclusive end of `for i in matched_until..spring.len() - min_remaining_size + 1`
day12_loop_end(len, min_remaining_size, bld) ==
    IF len < min_remaining_size /\ bld = "debug"
    THEN Panic("attempt to subtract with overflow")
    ELSE Ret(wrapping_add(wrapping_sub(len, min_remaining_size), 1))

\* the three assignments before the recursion: spring with the unknowns before
\* i set to '.', those of the group to '#' and a '?' boundary to '.', and
\* newly_assigned
day12_assign(unknowns, spring, unknowns_assigned, i, next_group_size, bch) ==
    LET rest == {u \in 1..Len(unknowns) : u > unknowns_assigned}
        working == Cardinality({u \in rest : unknowns[u] < i})
        broken == Cardinality({u \in rest : i <= unknowns[u] /\ unknowns[u] < i + next_group_size})
        boundary == IF bch = "?" THEN 1 ELSE 0
    IN [newly_assigned |-> working + broken + boundary,
        spring |-> [k \in 1..Len(spring) |->
            IF bch = "?" /\ k - 1 = i + next_group_size THEN "."
            ELSE IF \E u \in rest : unknowns[u] = k - 1 /\ unknowns[u] < i THEN "."
            ELSE IF \E u \in rest : unknowns[u] = k - 1 /\ unknowns[u] < i + next_group_size THEN "#"
            ELSE spring[k]]]

\* for unk_idx in 0..newly_assigned { spring[unknowns[unknowns_assigned + unk_idx]] = '?' }
day12_undo(unknowns, spring, unknowns_assigned, newly_assigned) ==
    [k \in 1..Len(spring) |->
        IF \E unk_idx \in 0..(newly_assigned - 1) : unknowns[unknowns_assigned + unk_idx + 1] = k - 1
        THEN "?" ELSE spring[k]]

RECURSIVE recursive_solve(_, _, _, _, _, _, _, _)
RECURSIVE day12_loop(_, _, _, _, _)

\* the for loop of recursive_solve from i on; a holds the arguments of the call
day12_loop(a, upper, i, count, memoizer) ==
    LET key == Memoize(a.unknowns_assigned, a.matched_until, a.records_matched)
        len == Len(a.spring)
        next_group_size == a.record[a.records_matched + 1]
        remaining_records == Len(a.record) - a.records_matched
    IN IF i >= upper THEN day12_insert_return(memoizer, key, count, a.spring)
       ELSE IF i > len THEN Panic("range end index out of range for slice")
       ELSE IF i > a.matched_until /\ a.spring[i] = "#"
       THEN day12_insert_return(memoizer, key, count, a.spring)
       ELSE IF \E k \in i..(i + next_group_size - 1) : k < len /\ a.spring[k + 1] = "."
       THEN day12_loop(a, upper, i + 1, count, memoizer)
       ELSE IF i + next_group_size >= len
       THEN \* candidate.get(next_group_size) is None
            IF remaining_records > 1 THEN day12_insert_return(memoizer, key, count, a.spring)
            ELSE day12_insert_return(memoizer, key, count + 1, a.spring)
       ELSE LET bch == a.spring[i + next_group_size + 1]
            IN IF bch = "#"
               THEN IF \A k \in i..(i + next_group_size - 1) : a.spring[k + 1] = "#"
                    THEN day12_insert_return(memoizer, key, count, a.spring)
                    ELSE day12_loop(a, upper, i + 1, count, memoizer)
               ELSE IF bch \notin {"?", "."}
               THEN Panic("internal error: entered unreachable code")
               ELSE LET asg == day12_assign(a.unknowns, a.spring, a.unknowns_assigned,
                                            i, next_group_size, bch)
                        sub == recursive_solve(memoizer, a.unknowns, a.record, asg.spring,
                                   i + next_group_size + 1,
                                   a.unknowns_assigned + asg.newly_assigned,
                                   a.records_matched + 1, a.build)
                    IN IF IsPanic(sub) THEN sub
                       ELSE day12_loop(
                               [a EXCEPT !.spring = day12_undo(a.unknowns, sub.spring,
                                                       a.unknowns_assigned, asg.newly_assigned)],
                               upper, i + 1, count + sub.ret, sub.memoizer)

recursive_solve(memoizer, unknowns, record, spring, matched_until, unknowns_assigned, records_matched, bld) ==
    LET key == Memoize(unknowns_assigned, matched_until, records_matched)
    IN IF key \in DOMAIN memoizer
       THEN [ret |-> memoizer[key], memoizer |-> memoizer, spring |-> spring]
       ELSE IF records_matched = Len(record)
       THEN IF \E k \in (matched_until + 1)..Len(spring) : spring[k] = "#"
            THEN day12_insert_return(memoizer, key, 0, spring)
            ELSE day12_insert_return(memoizer, key, 1, spring)
       ELSE LET remaining_records == Len(record) - records_matched
                min_remaining_size ==
                    SumSeq(SubSeq(record, records_matched + 1, Len(record))) + (remaining_records - 1)
                upper == day12_loop_end(Len(spring), min_remaining_size, bld)
            IN IF IsPanic(upper) THEN upper
               ELSE day12_loop([unknowns |-> unknowns, record |-> record, spring |-> spring,
                                matched_until |-> matched_until,
                                unknowns_assigned |-> unknowns_assigned,
                                records_matched |-> records_matched, build |-> bld],
                               upper.ret, matched_until, 0, memoizer)

\* spring.chars().enumerate().filter_map(..): the indices of the '?'
day12_unknowns(spring) ==
    LET RECURSIVE asc(_)
        asc(S) == IF S = {} THEN <<>> ELSE <<Min(S)>> \o asc(S \ {Min(S)})
    IN asc({k - 1 : k \in {j \in 1..Len(spring) : spring[j] = "?"}})

\* the closure of part1 and part2 for one row, without its println!
day12_row(record, spring, bld) ==
    recursive_solve(<<>>, day12_unknowns(spring), record, spring, 0, 0, 0, bld)

\* Puzzle::from_str on lines given by their two fields, the spring text and the
\* numbers of the comma-separated record
day12_from_str(lines) ==
    [records |-> [r \in 1..Len(lines) |-> lines[r].record],
     springs |-> [r \in 1..Len(lines) |-> lines[r].spring],
     records5 |-> [r \in 1..Len(lines) |->
                     LET record == lines[r].record
                     IN record \o record \o record \o record \o record],
     springs5 |-> [r \in 1..Len(lines) |->
                     LET spring == lines[r].spring
                     IN spring \o <<"?">> \o spring \o <<"?">> \o spring \o <<"?">> \o spring
                        \o <<"?">> \o spring]]

Day12MaxSpring == 3
Day12MaxGroups == 2
Day12MaxGroup == 3
Day12MaxRows == 1

Day12Lines ==
    {[spring |-> s, record |-> g] :
        s \in (SeqsUpTo({"#", ".", "?"}, Day12MaxSpring) \ {<<>>}),
        g \in (SeqsUpTo(1..Day12MaxGroup, Day12MaxGroups) \ {<<>>})}

Day12Init ==
    /\ prog = "day12"
    /\ build \in Builds
    /\ pc = "parse"
    /\ input \in (SeqsUpTo(Day12Lines, Day12MaxRows) \ {<<>>})
    /\ mem = <<>>
    /\ stdout = <<>>
    /\ result = None

\* let puzzle = time!(parse(&input)?);
Day12Parse ==
    /\ pc = "parse"
    /\ mem' = [puzzle |-> day12_from_str(input), row |-> 1, sum |-> 0]
    /\ pc' = "part1"
    /\ UNCHANGED <<prog, build, input, stdout, result>>

\* one element of the iterator of part1 or part2: println!("trying .."), the
\* closure's recursive_solve, the inspect's println!("{val}") and the sum
Day12Element(records, springs) ==
    LET record == records[mem.row]
        spring == springs[mem.row]
        trying == <<"trying", spring, "with", record>>
        val == day12_row(record, spring, build)
    IN IF IsPanic(val)
       THEN /\ stdout' = Append(stdout, trying)
            /\ result' = val
            /\ pc' = "exit"
            /\ mem' = mem
       ELSE /\ stdout' = stdout \o <<trying, <<val.ret>>>>
            /\ mem' = [mem EXCEPT !.row = mem.row + 1, !.sum = mem.sum + val.ret]
            /\ UNCHANGED <<pc, result>>

Day12Part1Row ==
    /\ pc = "part1"
    /\ mem.row <= Len(mem.puzzle.springs)
    /\ Day12Element(mem.puzzle.records, mem.puzzle.springs)
    /\ UNCHANGED <<prog, build, input>>

\* println!("{}", time!(part1(&puzzle)));
Day12Part1Print ==
    /\ pc = "part1"
    /\ mem.row > Len(mem.puzzle.springs)
    /\ stdout' = Append(stdout, <<mem.sum>>)
    /\ mem' = [mem EXCEPT !.row = 1, !.sum = 0]
    /\ pc' = "part2"
    /\ UNCHANGED <<prog, build, input, result>>

Day12Part2Row ==
    /\ pc = "part2"
    /\ mem.row <= Len(mem.puzzle.springs5)
    /\ Day12Element(mem.puzzle.records5, mem.puzzle.springs5)
    /\ UNCHANGED <<prog, build, input>>

\* println!("{}", time!(part2(&puzzle))); Ok(())
Day12Part2Print ==
    /\ pc = "part2"
    /\ mem.row > Len(mem.puzzle.springs5)
    /\ stdout' = Append(stdout, <<mem.sum>>)
    /\ result' = Ok(<<>>)
    /\ pc' = "exit"
    /\ UNCHANGED <<prog, build, input, mem>>

Day12Next ==
    \/ Day12Parse
    \/ Day12Part1Row
    \/ Day12Part1Print
    \/ Day12Part2Row
    \/ Day12Part2Print

SpecDay12 == Day12Init /\ [][Day12Next]_vars

\* the runs of '#' of a text without '?', left to right
RECURSIVE Day12Runs(_, _)
Day12Runs(s, run) ==
    IF s = <<>> THEN (IF run > 0 THEN <<run>> ELSE <<>>)
    ELSE IF s[1] = "#" THEN Day12Runs(Tail(s), run + 1)
    ELSE (IF run > 0 THEN <<run>> ELSE <<>>) \o Day12Runs(Tail(s), 0)

\* the number of ways to replace every '?' of spring by '.' or '#' so that the
\* runs of '#' are exactly the record
Day12Arrangements(spring, record) ==
    Cardinality({t \in [1..Len(spring) -> {"#", "."}] :
        /\ \A k \in 1..Len(spring) : spring[k] # "?" => t[k] = spring[k]
        /\ Day12Runs(t, 0) = record})

\* the least length a row needs to hold the groups of record
Day12MinSize(record) == SumSeq(record) + Len(record) - 1

\* C9: recursive_solve on a fresh memoizer returns the number of arrangements
\* of the row's '?' whose runs of '#' are the record, and 0 when the groups
\* cannot fit in the row: the first row of part1 does not panic, and the value
\* printed for it is that number.
C9_RecursiveSolveCountsArrangements ==
    /\ (Len(stdout) = 1 => ~IsPanic(result))
    /\ (Len(stdout) >= 2 =>
            stdout[2] = <<Day12Arrangements(input[1].spring, input[1].record)>>)

\* what does hold: a row long enough for its groups is counted correctly
C9_FittingRowCounted ==
    Len(input[1].spring) >= Day12MinSize(input[1].record) =>
        /\ (Len(stdout) = 1 => ~IsPanic(result))
        /\ (Len(stdout) >= 2 =>
                stdout[2] = <<Day12Arrangements(input[1].spring, input[1].record)>>)

\* a release build has counted an arrangement for a row too short for its groups
C9_ShortRowCounted ==
    /\ Len(input[1].spring) < Day12MinSize(input[1].record)
    /\ Len(stdout) >= 2
    /\ stdout[2] # <<0>>

\* a debug build has panicked on a row too short for its groups
C9_ShortRowPanicked ==
    /\ Len(input[1].spring) < Day12MinSize(input[1].record)
    /\ Len(stdout) = 1
    /\ IsPanic(result)

\* C1: a run of a day binary on a well-formed input writes exactly two lines
\* to standard output, the result of part 1 and the result of part 2.
C1_ExactlyTwoLines ==
    (pc = "exit" /\ ~IsPanic(result)) => Len(stdout) = 2

\* the run finished and wrote the two results after other lines
C1_MoreThanTwoLines ==
    /\ pc = "exit"
    /\ result = Ok(<<>>)
    /\ Len(stdout) > 2
    /\ stdout[1][1] = "trying"

----------------------------------------------------------------------------
(***************************************************************************)
(* Day 14: the tilting platform.  cells is a sequence of rows; the cell at *)
(* row y and column x (both from 0) is cells[y + 1][x + 1].                *)
(***************************************************************************)

\* the match in Puzzle::from_str
day14_cell(c) ==
    CASE c = "O" -> "Round" [] c = "#" -> "Cube" [] c = "." -> "Nothing"

day14_from_str(lines) ==
    [cells |-> collect([r \in 1..Len(lines) |->
                  collect([k \in 1..Len(lines[r]) |-> day14_cell(lines[r][k])])]),
     rows |-> Len(lines),
     cols |-> Len(lines[1])]

saturating_sub(a, b) == IF a < b THEN 0 ELSE a - b

\* the inner loop of a tilt on one column or row given as a sequence: forward
\* (north, west) it visits 0, 1, ..; backward (south, east) len - 1, len - 2, ..
RECURSIVE day14_tilt_line(_, _, _, _)
day14_tilt_line(line, k, next_write, forward) ==
    IF k < 0 \/ k >= Len(line) THEN line
    ELSE LET next == IF forward THEN k + 1 ELSE k - 1
         IN CASE line[k + 1] = "Nothing" -> day14_tilt_line(line, next, next_write, forward)
              [] line[k + 1] = "Cube" ->
                    day14_tilt_line(line, next,
                        IF forward THEN k + 1 ELSE saturating_sub(k, 1), forward)
              [] line[k + 1] = "Round" ->
                    LET temp == line[next_write + 1]
                        swapped == [line EXCEPT ![next_write + 1] = line[k + 1], ![k + 1] = temp]
                    IN day14_tilt_line(swapped, next,
                           IF forward THEN next_write + 1 ELSE saturating_sub(next_write, 1),
                           forward)

day14_column(puzzle, cells, x) == collect([y \in 1..puzzle.rows |-> cells[y][x]])

\* the platform whose columns are the sequences columns[1], columns[2], ..
day14_from_columns(puzzle, columns) ==
    collect([y \in 1..puzzle.rows |-> collect([x \in 1..puzzle.cols |-> columns[x][y]])])

tilt_north(puzzle, cells) ==
    day14_from_columns(puzzle, collect([x \in 1..puzzle.cols |->
        day14_tilt_line(day14_column(puzzle, cells, x), 0, 0, TRUE)]))

tilt_west(puzzle, cells) ==
    collect([y \in 1..puzzle.rows |-> day14_tilt_line(cells[y], 0, 0, TRUE)])

tilt_south(puzzle, cells) ==
    day14_from_columns(puzzle, collect([x \in 1..puzzle.cols |->
        day14_tilt_line(day14_column(puzzle, cells, x),
                        puzzle.rows - 1, puzzle.rows - 1, FALSE)]))

tilt_east(puzzle, cells) ==
    collect([y \in 1..puzzle.rows |->
        day14_tilt_line(cells[y], puzzle.cols - 1, puzzle.cols - 1, FALSE)])

\* tilt_north; tilt_west; tilt_south; tilt_east
day14_spin(puzzle, cells) ==
    tilt_east(puzzle, tilt_south(puzzle, tilt_west(puzzle, tilt_north(puzzle, cells))))

\* the sum of puzzle.cols - y over the round rocks; y stays at most cols on every
\* platform of the model, so the subtraction does not overflow
calculate(puzzle, cells) ==
    SumSeq([x \in 1..puzzle.cols |->
        SumSeq([y \in 1..puzzle.rows |->
            IF cells[y][x] = "Round" THEN puzzle.cols - (y - 1) ELSE 0])])

\* the literals of part2's loops
Day14WarmUpIterations == 1000
Day14Iterations == 1000000000

\* scores_seen_map.entry(score).and_modify(..push(iteration)).or_insert_with(..)
day14_record(scores_seen_map, score, iteration) ==
    [s \in DOMAIN scores_seen_map \cup {score} |->
        IF s = score
        THEN (IF score \in DOMAIN scores_seen_map THEN scores_seen_map[score] ELSE <<>>)
             \o <<iteration>>
        ELSE scores_seen_map[s]]

\* (1..cycle_len).all(|i| scores_seen[iteration - i] == scores_seen[iteration - cycle_len - i]):
\* Ret(TRUE), Ret(FALSE) at the first mismatch, or the panic of the first index
\* iteration - cycle_len - i below 0
day14_all(scores_seen, iteration, cycle_len, bld) ==
    LET stop == {i \in 1..(cycle_len - 1) :
                    \/ iteration - cycle_len - i < 0
                    \/ scores_seen[iteration - i + 1] # scores_seen[iteration - cycle_len - i + 1]}
    IN IF stop = {} THEN Ret(TRUE)
       ELSE IF iteration - cycle_len - Min(stop) < 0
       THEN (IF bld = "debug" THEN Panic("attempt to subtract with overflow")
             ELSE Panic("index out of bounds"))
       ELSE Ret(FALSE)

\* for previous_it in &*previous_its, from the k-th on: Some(cycle_len) at the
\* first one that passes the test, None when none does, or the panic
RECURSIVE day14_previous_its(_, _, _, _, _)
day14_previous_its(previous_its, k, scores_seen, iteration, bld) ==
    IF k > Len(previous_its) THEN None
    ELSE \* cycle_len = iteration - previous_its[k]
         CASE day14_all(scores_seen, iteration, iteration - previous_its[k], bld) = Ret(TRUE) ->
                Some(iteration - previous_its[k])
           [] day14_all(scores_seen, iteration, iteration - previous_its[k], bld) = Ret(FALSE) ->
                day14_previous_its(previous_its, k + 1, scores_seen, iteration, bld)
           [] OTHER -> day14_all(scores_seen, iteration, iteration - previous_its[k], bld)

\* tests::SAMPLE
Day14Sample ==
    <<<<"O", ".", ".", ".", ".", "#", ".", ".", ".", ".">>,
      <<"O", ".", "O", "O", "#", ".", ".", ".", ".", "#">>,
      <<".", ".", ".", ".", ".", "#", "#", ".", ".", ".">>,
      <<"O", "O", ".", "#", "O", ".", ".", ".", ".", "O">>,
      <<".", "O", ".", ".", ".", ".", ".", "O", "#", ".">>,
      <<"O", ".", "#", ".", ".", "O", ".", "#", ".", "#">>,
      <<".", ".", "O", ".", ".", "#", "O", ".", ".", "O">>,
      <<".", ".", ".", ".", ".", ".", ".", "O", ".", ".">>,
      <<"#", ".", ".", ".", ".", "#", "#", "#", ".", ".">>,
      <<"#", "O", "O", ".", ".", "#", ".", ".", ".", ".">>>>

Day14MaxRows == 2
Day14MaxCols == 2

\* the platforms of the model: every small one, and the sample of the tests
Day14Inputs ==
    UNION {[1..h -> [1..w -> {"O", "#", "."}]] : h \in 1..Day14MaxRows, w \in 1..Day14MaxCols}
        \cup {Day14Sample}

Day14Init ==
    /\ prog = "day14::part2"
    /\ build \in Builds
    /\ pc = "warm_up"
    /\ input \in Day14Inputs
    /\ mem = [puzzle |-> day14_from_str(input),
              cells |-> day14_from_str(input).cells,
              iteration |-> 0,
              scores_seen_map |-> <<>>,
              scores_seen |-> <<>>]
    /\ stdout = <<>>
    /\ result = None

\* one iteration of `while iteration < 1_000`
Day14WarmUp ==
    /\ pc = "warm_up"
    /\ mem.iteration < Day14WarmUpIterations
    /\ \E cells \in {day14_spin(mem.puzzle, mem.cells)} :
       \E score \in {calculate(mem.puzzle, cells)} :
          mem' = [mem EXCEPT !.cells = cells,
                             !.scores_seen = Append(mem.scores_seen, score),
                             !.scores_seen_map = day14_record(mem.scores_seen_map, score, mem.iteration),
                             !.iteration = mem.iteration + 1]
    /\ UNCHANGED <<prog, build, pc, input, stdout, result>>

\* the warm-up loop ends
Day14WarmUpDone ==
    /\ pc = "warm_up"
    /\ mem.iteration >= Day14WarmUpIterations
    /\ pc' = "cycle_finder"
    /\ UNCHANGED <<prog, build, input, mem, stdout, result>>

\* the rest of an iteration of the cycle finder once the score is pushed: found
\* is the outcome of the loop over previous_its, None for a score not in the map
day14_cycle_finder(cells, score, scores_seen, iteration, found) ==
    IF IsPanic(found)
    THEN /\ result' = found
         /\ pc' = "exit"
         /\ mem' = [mem EXCEPT !.cells = cells, !.scores_seen = scores_seen]
         /\ UNCHANGED stdout
    ELSE IF found.some
    THEN \E cycle_len \in {found.val} : \E remaining \in {Day14Iterations - iteration} :
            /\ stdout' = Append(stdout,
                    [j \in 1..cycle_len |-> scores_seen[iteration - (cycle_len - j) + 1]])
            /\ mem' = [mem EXCEPT !.cells = cells, !.scores_seen = scores_seen,
                          !.iteration = iteration + (remaining \div cycle_len) * cycle_len]
            /\ pc' = "tail"
            /\ UNCHANGED result
    ELSE /\ mem' = [mem EXCEPT !.cells = cells, !.scores_seen = scores_seen,
                       !.scores_seen_map = day14_record(mem.scores_seen_map, score, iteration),
                       !.iteration = iteration + 1]
         /\ UNCHANGED <<pc, stdout, result>>

\* one iteration of `'cycle_finder: while iteration < 1_000_000_000`
Day14CycleFinder ==
    /\ pc = "cycle_finder"
    /\ mem.iteration < Day14Iterations
    /\ \E cells \in {day14_spin(mem.puzzle, mem.cells)} :
       \E score \in {calculate(mem.puzzle, cells)} :
       \E scores_seen \in {Append(mem.scores_seen, score)} :
       \E found \in {IF score \in DOMAIN mem.scores_seen_map
                     THEN day14_previous_its(mem.scores_seen_map[score], 1, scores_seen,
                                             mem.iteration, build)
                     ELSE None} :
          day14_cycle_finder(cells, score, scores_seen, mem.iteration, found)
    /\ UNCHANGED <<prog, build, input>>

\* one iteration of the last `while iteration < 1_000_000_000`
Day14Tail ==
    /\ pc = "tail"
    /\ mem.iteration < Day14Iterations
    /\ \E cells \in {day14_spin(mem.puzzle, mem.cells)} :
          /\ mem' = [mem EXCEPT !.cells = cells, !.iteration = mem.iteration + 1]
          /\ stdout' = Append(stdout, <<calculate(mem.puzzle, cells)>>)
    /\ UNCHANGED <<prog, build, pc, input, result>>

\* both remaining loops are over (the cycle finder by its break or by its
\* condition): calculate(puzzle, &cells)
Day14Return ==
    /\ pc \in {"cycle_finder", "tail"}
    /\ mem.iteration >= Day14Iterations
    /\ result' = Ret(calculate(mem.puzzle, mem.cells))
    /\ pc' = "exit"
    /\ UNCHANGED <<prog, build, input, mem, stdout>>

Day14Next ==
    \/ Day14WarmUp
    \/ Day14WarmUpDone
    \/ Day14CycleFinder
    \/ Day14Tail
    \/ Day14Return

SpecDay14 == Day14Init /\ [][Day14Next]_vars

\* the platforms cells, spin(cells), spin(spin(cells)), .. up to the first repeat
RECURSIVE Day14Orbit(_, _)
Day14Orbit(puzzle, hist) ==
    LET next == day14_spin(puzzle, hist[Len(hist)])
    IN IF \E k \in 1..Len(hist) : hist[k] = next
       THEN [hist |-> hist, back |-> CHOOSE k \in 1..Len(hist) : hist[k] = next]
       ELSE Day14Orbit(puzzle, Append(hist, next))

\* the platform after n spin cycles: hist[k] is the platform after k - 1 cycles
\* and the cycle after the last one is hist[back]
Day14After(puzzle, n) ==
    LET o == Day14Orbit(puzzle, <<puzzle.cells>>)
        period == Len(o.hist) - o.back + 1
    IN IF n < Len(o.hist) THEN o.hist[n + 1]
       ELSE o.hist[o.back + ((n - (o.back - 1)) % period)]

\* the load on the north beam: a round rock in row y counts rows - y
Day14NorthLoad(puzzle, cells) ==
    SumSeq([x \in 1..puzzle.cols |->
        SumSeq([y \in 1..puzzle.rows |->
            IF cells[y][x] = "Round" THEN puzzle.rows - (y - 1) ELSE 0])])

\* C3: part2 returns the north-beam load of the platform after exactly
\* 1,000,000,000 spin cycles of the input platform.
C3_Part2IsLoadAfterAllCycles ==
    pc = "exit" =>
        result = Ret(Day14NorthLoad(mem.puzzle, Day14After(mem.puzzle, Day14Iterations)))

\* part2 returned on the sample of the tests, and not the load after
\* 1,000,000,000 cycles but the load after one more
C3_SampleOffByOne ==
    /\ pc = "exit"
    /\ input = Day14Sample
    /\ ~IsPanic(result)
    /\ result # Ret(Day14NorthLoad(mem.puzzle, Day14After(mem.puzzle, Day14Iterations)))
    /\ result = Ret(Day14NorthLoad(mem.puzzle, Day14After(mem.puzzle, Day14Iterations + 1)))

\* part2 panicked in the cycle finder
C3_CycleFinderPanicked ==
    /\ pc = "exit"
    /\ IsPanic(result)
    /\ mem.iteration = Day14WarmUpIterations

----------------------------------------------------------------------------
(***************************************************************************)
(* Day 10: the pipe maze.  y grows to the south.                           *)
(***************************************************************************)

ALL_DIRECTIONS == <<"North", "East", "South", "West">>

\* PointHelpers::in_direction
in_direction(p, direction) ==
    CASE direction = "North" -> Point2(p.x, p.y - 1)
      [] direction = "East" -> Point2(p.x + 1, p.y)
      [] direction = "South" -> Point2(p.x, p.y + 1)
      [] direction = "West" -> Point2(p.x - 1, p.y)

\* Direction::opposite
opposite(direction) ==
    CASE direction = "North" -> "South"
      [] direction = "East" -> "West"
      [] direction = "South" -> "North"
      [] direction = "West" -> "East"

\* Pipe::has_exit
has_exit(pipe, direction) ==
    \/ direction = "North" /\ pipe \in {"Vertical", "CornerL", "CornerJ"}
    \/ direction = "East" /\ pipe \in {"Horizontal", "CornerL", "CornerF"}
    \/ direction = "South" /\ pipe \in {"Vertical", "Corner7", "CornerF"}
    \/ direction = "West" /\ pipe \in {"Horizontal", "CornerJ", "Corner7"}

\* the match of Puzzle::from_str on the characters that are pipes
Day10PipeChars == {"|", "-", "L", "J", "7", "F"}

day10_pipe(c) ==
    CASE c = "|" -> "Vertical" [] c = "-" -> "Horizontal" [] c = "L" -> "CornerL"
      [] c = "J" -> "CornerJ" [] c = "7" -> "Corner7" [] c = "F" -> "CornerF"

\* the match on start_directions[0..2], a variant without the arm of CornerF
day10_start_pipe_without_f(start_directions) ==
    CASE start_directions = <<"North", "South">> -> "Vertical"
      [] start_directions = <<"East", "West">> -> "Horizontal"
      [] start_directions = <<"North", "East">> -> "CornerL"
      [] start_directions = <<"North", "West">> -> "CornerJ"
      [] start_directions = <<"South", "West">> -> "Corner7"
      [] OTHER -> "unreachable"

\* the match on start_directions[0..2]; its last arm is unreachable!()
day10_start_pipe(start_directions) ==
    CASE start_directions = <<"North", "South">> -> "Vertical"
      [] start_directions = <<"East", "West">> -> "Horizontal"
      [] start_directions = <<"North", "East">> -> "CornerL"
      [] start_directions = <<"North", "West">> -> "CornerJ"
      [] start_directions = <<"South", "West">> -> "Corner7"
      [] start_directions = <<"East", "South">> -> "CornerF"
      [] OTHER -> "unreachable"

\* Puzzle::from_str; the two try_folds visit the characters line by line, left
\* to right, and stop at the first second 'S' or invalid character
day10_from_str(lines) ==
    LET pts == UNION {{Point2(x, y) : x \in 0..(Len(lines[y + 1]) - 1)} : y \in 0..(Len(lines) - 1)}
        ch(p) == lines[p.y + 1][p.x + 1]
        before(p, q) == p.y < q.y \/ (p.y = q.y /\ p.x < q.x)
        first(S) == CHOOSE p \in S : \A q \in S : q = p \/ before(p, q)
        starts == {p \in pts : ch(p) = "S"}
        bad == {p \in pts : \/ ch(p) \notin Day10PipeChars \cup {"S", "."}
                            \/ ch(p) = "S" /\ p # first(starts)}
    IN IF bad # {}
       THEN (IF ch(first(bad)) = "S" THEN Err("multiple starts") ELSE Err("invalid character"))
       ELSE IF starts = {} THEN Err("no start")
       ELSE LET start == first(starts)
                cells == [p \in {q \in pts : ch(q) \in Day10PipeChars} |-> day10_pipe(ch(p))]
                connects(direction) ==
                    /\ in_direction(start, direction) \in DOMAIN cells
                    /\ has_exit(cells[in_direction(start, direction)], opposite(direction))
                start_directions == SelectSeq(ALL_DIRECTIONS, connects)
            IN IF Len(start_directions) # 2
               THEN Err("expected 2 connections to start")
               ELSE IF day10_start_pipe(start_directions) = "unreachable"
               THEN Panic("internal error: entered unreachable code")
               ELSE Ok([start |-> start,
                        cells |-> [p \in DOMAIN cells \cup {start} |->
                                     IF p = start THEN day10_start_pipe(start_directions)
                                     ELSE cells[p]]])

\* ALL_DIRECTIONS.into_iter().find_map(..) for current: the first direction, if
\* any, whose neighbour is a pipe connected to current and not yet visited
day10_find_map(puzzle, current, visited) ==
    LET pipe == puzzle.cells[current]
        ok(direction) ==
            LET candidate == in_direction(current, direction)
            IN /\ candidate \in DOMAIN puzzle.cells
               /\ has_exit(pipe, direction)
               /\ has_exit(puzzle.cells[candidate], opposite(direction))
               /\ candidate \notin visited
        found == SelectSeq(ALL_DIRECTIONS, ok)
    IN IF found = <<>> THEN None ELSE Some(in_direction(current, found[1]))

\* currents.iter().filter_map(..).collect() from the k-th current on; the closure
\* inserts every candidate it returns into visited
RECURSIVE day10_nexts(_, _, _, _, _)
day10_nexts(puzzle, currents, k, visited, nexts) ==
    IF k > Len(currents) THEN [nexts |-> nexts, visited |-> visited]
    ELSE LET candidate == day10_find_map(puzzle, currents[k], visited)
         IN IF candidate.some
            THEN day10_nexts(puzzle, currents, k + 1, visited \cup {candidate.val},
                             Append(nexts, candidate.val))
            ELSE day10_nexts(puzzle, currents, k + 1, visited, nexts)

\* part2 on a visited pipe with an exit to the north or the south, a variant
\* that counts every such pipe as a crossing of the loop
day10_crossing_every_pipe(pipe, in_loop, last_direction) ==
    [in_loop |-> ~in_loop, last_direction |-> None]

\* part2 on a visited pipe with an exit to the north or the south: the new
\* in_loop and last_direction
day10_crossing(pipe, in_loop, last_direction) ==
    IF pipe = "Vertical" THEN [in_loop |-> ~in_loop, last_direction |-> None]
    ELSE IF ~last_direction.some
    THEN [in_loop |-> ~in_loop,
          last_direction |-> Some(IF has_exit(pipe, "North") THEN "North" ELSE "South")]
    ELSE [in_loop |-> IF has_exit(pipe, last_direction.val) THEN ~in_loop ELSE in_loop,
          last_direction |-> None]

\* `for x in bounds.min.x..=bounds.max.x` of part2 from x on: the count after the row
RECURSIVE day10_row(_, _, _, _, _, _, _, _)
day10_row(puzzle, visited, bounds, y, x, in_loop, last_direction, count) ==
    IF x > bounds.max.x THEN count
    ELSE LET current == Point2(x, y)
         IN IF current \in visited
            THEN LET pipe == puzzle.cells[current]
                 IN IF has_exit(pipe, "North") \/ has_exit(pipe, "South")
                    THEN LET c == day10_crossing(pipe, in_loop, last_direction)
                         IN day10_row(puzzle, visited, bounds, y, x + 1,
                                      c.in_loop, c.last_direction, count)
                    ELSE day10_row(puzzle, visited, bounds, y, x + 1,
                                   in_loop, last_direction, count)
            ELSE day10_row(puzzle, visited, bounds, y, x + 1, in_loop, last_direction,
                           IF in_loop THEN count + 1 ELSE count)

Day10MaxWidth == 4
Day10MaxHeight == 3
\* the number of tiles of the maps that are enumerated character by character
Day10MaxFreeTiles == 4

\* A closed loop of pipes on a w x h map is the outline of a set F of the unit
\* squares between the tile centres; the square <<i, j>> has the tiles (i, j),
\* (i + 1, j), (i, j + 1) and (i + 1, j + 1) at its corners.  The loop joins
\* two neighbouring tiles when exactly one of the two squares along the
\* segment between them is in F.
Day10Joined(F, p, direction) ==
    CASE direction = "East" -> (<<p.x, p.y - 1>> \in F) # (<<p.x, p.y>> \in F)
      [] direction = "West" -> (<<p.x - 1, p.y - 1>> \in F) # (<<p.x - 1, p.y>> \in F)
      [] direction = "South" -> (<<p.x - 1, p.y>> \in F) # (<<p.x, p.y>> \in F)
      [] direction = "North" -> (<<p.x - 1, p.y - 1>> \in F) # (<<p.x, p.y - 1>> \in F)

Day10Exits(F, p) == {d \in {"North", "East", "South", "West"} : Day10Joined(F, p, d)}

Day10Tiles(w, h) == {Point2(x, y) : x \in 0..(w - 1), y \in 0..(h - 1)}

\* the tiles joined to the tiles of S by segments of the outline
RECURSIVE Day10Outline(_, _)
Day10Outline(F, S) ==
    LET more == S \cup {in_direction(p, d) : p \in S, d \in {"North", "East", "South", "West"}} 
        next == {q \in more : q \in S \/ \E p \in S : \E d \in Day10Exits(F, p) : q = in_direction(p, d)}
    IN IF next = S THEN S ELSE Day10Outline(F, next)

\* F has one outline, which passes every tile at most once
Day10IsLoop(F, w, h) ==
    LET on == {p \in Day10Tiles(w, h) : Day10Exits(F, p) # {}}
    IN /\ F # {}
       /\ \A p \in on : Cardinality(Day10Exits(F, p)) = 2
       /\ Day10Outline(F, {CHOOSE p \in on : TRUE}) = on

Day10CharOf(exits) ==
    CASE exits = {"North", "South"} -> "|" [] exits = {"East", "West"} -> "-"
      [] exits = {"North", "East"} -> "L" [] exits = {"North", "West"} -> "J"
      [] exits = {"South", "West"} -> "7" [] exits = {"East", "South"} -> "F"
      [] OTHER -> "."

\* the text of the w x h map with the loop F, S at the loop tile s and, when
\* junk is not ".", the pipe junk at the tile j off the loop
Day10Text(F, w, h, s, j, junk) ==
    [r \in 1..h |-> [k \in 1..w |->
        LET p == Point2(k - 1, r - 1)
        IN IF p = s THEN "S"
           ELSE IF p = j THEN junk
           ELSE Day10CharOf(Day10Exits(F, p))]]

Day10Loops(w, h) ==
    {F \in SUBSET ((0..(w - 2)) \X (0..(h - 2))) : Day10IsLoop(F, w, h)}

\* tests::SAMPLE2
Day10Sample2 ==
    <<<<".", ".", ".", ".", ".", ".", ".", ".", ".", ".", ".">>,
      <<".", "S", "-", "-", "-", "-", "-", "-", "-", "7", ".">>,
      <<".", "|", "F", "-", "-", "-", "-", "-", "7", "|", ".">>,
      <<".", "|", "|", ".", ".", ".", ".", ".", "|", "|", ".">>,
      <<".", "|", "|", ".", ".", ".", ".", ".", "|", "|", ".">>,
      <<".", "|", "L", "-", "7", ".", "F", "-", "J", "|", ".">>,
      <<".", "|", ".", ".", "|", ".", "|", ".", ".", "|", ".">>,
      <<".", "L", "-", "-", "J", ".", "L", "-", "-", "J", ".">>,
      <<".", ".", ".", ".", ".", ".", ".", ".", ".", ".", ".">>>>

\* tests::SAMPLE3
Day10Sample3 ==
    <<<<".", "F", "-", "-", "-", "-", "7", "F", "7", "F", "7", "F", "7", "F", "-", "7", ".", ".", ".", ".">>,
      <<".", "|", "F", "-", "-", "7", "|", "|", "|", "|", "|", "|", "|", "|", "F", "J", ".", ".", ".", ".">>,
      <<".", "|", "|", ".", "F", "J", "|", "|", "|", "|", "|", "|", "|", "|", "L", "7", ".", ".", ".", ".">>,
      <<"F", "J", "L", "7", "L", "7", "L", "J", "L", "J", "|", "|", "L", "J", ".", "L", "-", "7", ".", ".">>,
      <<"L", "-", "-", "J", ".", "L", "7", ".", ".", ".", "L", "J", "S", "7", "F", "-", "7", "L", "7", ".">>,
      <<".", ".", ".", ".", "F", "-", "J", ".", ".", "F", "7", "F", "J", "|", "L", "7", "L", "7", "L", "7">>,
      <<".", ".", ".", ".", "L", "7", ".", "F", "7", "|", "|", "L", "7", "|", ".", "L", "7", "L", "7", "|">>,
      <<".", ".", ".", ".", ".", "|", "F", "J", "L", "J", "|", "F", "J", "|", "F", "7", "|", ".", "L", "J">>,
      <<".", ".", ".", ".", "F", "J", "L", "-", "7", ".", "|", "|", ".", "|", "|", "|", "|", ".", ".", ".">>,
      <<".", ".", ".", ".", "L", "-", "-", "-", "J", ".", "L", "J", ".", "L", "J", "L", "J", ".", ".", ".">>>>

\* tests::SAMPLE4
Day10Sample4 ==
    <<<<"F", "F", "7", "F", "S", "F", "7", "F", "7", "F", "7", "F", "7", "F", "7", "F", "-", "-", "-", "7">>,
      <<"L", "|", "L", "J", "|", "|", "|", "|", "|", "|", "|", "|", "|", "|", "|", "|", "F", "-", "-", "J">>,
      <<"F", "L", "-", "7", "L", "J", "L", "J", "|", "|", "|", "|", "|", "|", "L", "J", "L", "-", "7", "7">>,
      <<"F", "-", "-", "J", "F", "-", "-", "7", "|", "|", "L", "J", "L", "J", "7", "F", "7", "F", "J", "-">>,
      <<"L", "-", "-", "-", "J", "F", "-", "J", "L", "J", ".", "|", "|", "-", "F", "J", "L", "J", "J", "7">>,
      <<"|", "F", "|", "F", "-", "J", "F", "-", "-", "-", "7", "F", "7", "-", "L", "7", "L", "|", "7", "|">>,
      <<"|", "F", "F", "J", "F", "7", "L", "7", "F", "-", "J", "F", "7", "|", "J", "L", "-", "-", "-", "7">>,
      <<"7", "-", "L", "-", "J", "L", "7", "|", "|", "F", "7", "|", "L", "7", "F", "-", "7", "F", "7", "|">>,
      <<"L", ".", "L", "7", "L", "F", "J", "|", "|", "|", "|", "|", "F", "J", "L", "7", "|", "|", "L", "J">>,
      <<"L", "7", "J", "L", "J", "L", "-", "J", "L", "J", "L", "J", "L", "-", "-", "J", "L", "J", ".", "L">>>>

\* a character that is neither a pipe, nor S, nor '.'
Day10InvalidChar == "x"

\* the maps of the model: the samples of the tests of part2, every loop on a
\* small map with S anywhere on it and at most one pipe off the loop, every
\* text of a few tiles, whether it parses or not, the empty text, and S in
\* the middle of three rows with anything on its four sides
Day10Init ==
    /\ prog = "day10::part2"
    /\ build = "debug"   \* the coordinates and counts stay far below 2^31
    /\ pc = "parse"
    /\ \/ input \in {Day10Sample2, Day10Sample3, Day10Sample4}
       \/ \E w \in 2..Day10MaxWidth : \E h \in 2..Day10MaxHeight : \E F \in Day10Loops(w, h) :
          \E s \in {p \in Day10Tiles(w, h) : Day10Exits(F, p) # {}} :
             \/ input = Day10Text(F, w, h, s, s, ".")
             \/ \E j \in {p \in Day10Tiles(w, h) : Day10Exits(F, p) = {}} :
                \E junk \in Day10PipeChars :
                   input = Day10Text(F, w, h, s, j, junk)
       \/ \E w \in 1..Day10MaxFreeTiles : \E h \in 1..Day10MaxFreeTiles :
             /\ w * h <= Day10MaxFreeTiles
             /\ input \in [1..h -> [1..w -> Day10PipeChars \cup {"S", ".", Day10InvalidChar}]]
       \/ input = <<>>
       \/ \E north, east, south, west \in Day10PipeChars \cup {"."} :
             input = <<<<".", north, ".">>, <<west, "S", east>>, <<".", south, ".">>>>
    /\ mem = <<>>
    /\ stdout = <<>>
    /\ result = None

\* parse(&input), then the first lines of solve
Day10Parse ==
    /\ pc = "parse"
    /\ \E parsed \in {day10_from_str(input)} :
          IF ~IsPanic(parsed) /\ parsed.ok
          THEN /\ mem' = [puzzle |-> parsed.val, steps |-> 0,
                          visited |-> {parsed.val.start},
                          currents |-> <<parsed.val.start, parsed.val.start>>]
               /\ pc' = "solve"
               /\ UNCHANGED result
          ELSE /\ result' = parsed
               /\ pc' = "exit"
               /\ UNCHANGED mem
    /\ UNCHANGED <<prog, build, input, stdout>>

\* return (steps + 1, visited), a variant that returns steps
day10_return_steps(steps, visited) == [steps |-> steps, visited |-> visited]

\* return (steps + 1, visited)
day10_return(steps, visited) == [steps |-> steps + 1, visited |-> visited]

\* one iteration of the loop of solve; on its return, part2 takes up visited and
\* computes bounds (mem.solved keeps the pair that solve returned)
Day10Solve ==
    /\ pc = "solve"
    /\ \E n \in {day10_nexts(mem.puzzle, mem.currents, 1, mem.visited, <<>>)} :
          IF Len(n.nexts) < 2
          THEN /\ mem' = [puzzle |-> mem.puzzle, visited |-> n.visited,
                          solved |-> day10_return(mem.steps, n.visited),
                          bounds |-> Bounds2_from_points(n.visited),
                          count |-> 0,
                          y |-> Bounds2_from_points(n.visited).min.y]
               /\ pc' = "part2"
          ELSE /\ mem' = [mem EXCEPT !.steps = mem.steps + 1, !.currents = n.nexts,
                                     !.visited = n.visited]
               /\ UNCHANGED pc
    /\ UNCHANGED <<prog, build, input, stdout, result>>

\* one iteration of `for y in bounds.min.y..=bounds.max.y`
Day10Row ==
    /\ pc = "part2"
    /\ mem.y <= mem.bounds.max.y
    /\ mem' = [mem EXCEPT !.y = mem.y + 1,
                          !.count = day10_row(mem.puzzle, mem.visited, mem.bounds, mem.y,
                                              mem.bounds.min.x, FALSE, None, mem.count)]
    /\ UNCHANGED <<prog, build, pc, input, stdout, result>>

\* count
Day10Return ==
    /\ pc = "part2"
    /\ mem.y > mem.bounds.max.y
    /\ result' = Ret(mem.count)
    /\ pc' = "exit"
    /\ UNCHANGED <<prog, build, input, mem, stdout>>

Day10Next ==
    \/ Day10Parse
    \/ Day10Solve
    \/ Day10Row
    \/ Day10Return

SpecDay10 == Day10Init /\ [][Day10Next]_vars

\* two tiles are connected when they are neighbours and both are pipes with an
\* exit towards the other
Day10Connected(puzzle, p, q) ==
    \E d \in {"North", "East", "South", "West"} :
        /\ q = in_direction(p, d)
        /\ p \in DOMAIN puzzle.cells /\ q \in DOMAIN puzzle.cells
        /\ has_exit(puzzle.cells[p], d)
        /\ has_exit(puzzle.cells[q], opposite(d))

\* the tiles connected to the tiles of S, directly or through other tiles
RECURSIVE Day10Reach(_, _)
Day10Reach(puzzle, S) ==
    LET next == S \cup {q \in {in_direction(p, d) : p \in S, d \in {"North", "East", "South", "West"}} :
                          \E p \in S : Day10Connected(puzzle, p, q)}
    IN IF next = S THEN S ELSE Day10Reach(puzzle, next)

Day10MainLoop(puzzle) == Day10Reach(puzzle, {puzzle.start})

\* the tiles connected to S form a closed loop: each is connected to two others
Day10IsClosedLoop(puzzle) ==
    LET loop == Day10MainLoop(puzzle)
    IN \A p \in loop : Cardinality({q \in loop : Day10Connected(puzzle, p, q)}) = 2

\* a tile off the loop is enclosed when a ray from it to the north, just east
\* of the tile centres, crosses the loop an odd number of times: it crosses at
\* the loop tiles to the north that have an exit to the east
Day10Enclosed(puzzle, loop, p) ==
    /\ p \notin loop
    /\ Cardinality({q \in loop : q.x = p.x /\ q.y < p.y /\ has_exit(puzzle.cells[q], "East")}) % 2 = 1

Day10EnclosedTiles(puzzle, lines) ==
    LET loop == Day10MainLoop(puzzle)
    IN {p \in Day10Tiles(Len(lines[1]), Len(lines)) : Day10Enclosed(puzzle, loop, p)}

\* C10: part2 returns the number of tiles that are not part of the main loop
\* through S and are enclosed by it, whether they hold a pipe or not.
C10_Part2CountsEnclosedTiles ==
    (pc = "exit" /\ "ret" \in DOMAIN result /\ Day10IsClosedLoop(mem.puzzle)) =>
        result = Ret(Cardinality(Day10EnclosedTiles(mem.puzzle, input)))

\* part2 returned on a map with an enclosed pipe off the loop, and with a tile
\* off the loop that is not enclosed
C10_EnclosedJunkPipe ==
    /\ pc = "exit"
    /\ "ret" \in DOMAIN result
    /\ Day10IsClosedLoop(mem.puzzle)
    /\ result.ret >= 1
    /\ DOMAIN mem.puzzle.cells \cap Day10EnclosedTiles(mem.puzzle, input) # {}
    /\ Day10Tiles(Len(input[1]), Len(input))
            \ (Day10MainLoop(mem.puzzle) \cup Day10EnclosedTiles(mem.puzzle, input)) # {}

\* a run of day 10 that is not stopped goes on to its end
FairSpecDay10 == SpecDay10 /\ WF_vars(Day10Next)

\* solve has just returned to part2
Day10SolveReturned == pc = "part2" /\ mem.y = mem.bounds.min.y

\* C11 as stated: for every parsed puzzle solve returns (L/2, V), L the number
\* of tiles of the closed loop through S and V the set of these tiles.
C11_SolveReturnsLoopOfEveryPuzzle ==
    Day10SolveReturned =>
        /\ Day10IsClosedLoop(mem.puzzle)
        /\ 2 * mem.solved.steps = Cardinality(Day10MainLoop(mem.puzzle))
        /\ mem.solved.visited = Day10MainLoop(mem.puzzle)

\* solve has returned on a map whose pipes connected to S form a closed loop
Day10SolvedLoop ==
    Day10SolveReturned /\ Day10IsClosedLoop(mem.puzzle) =>
        /\ 2 * mem.solved.steps = Cardinality(Day10MainLoop(mem.puzzle))
        /\ mem.solved.visited = Day10MainLoop(mem.puzzle)

\* C11, amended: solve terminates for every parsed puzzle (every run reaches
\* its end), and when the pipes connected to S form a closed loop of L tiles it
\* returns (L/2, V) with V exactly the set of these tiles.
C11_SolveTerminatesAndReturnsClosedLoop ==
    /\ []Day10SolvedLoop
    /\ <>(pc = "exit")

\* solve returned half the length of a closed loop of more than four tiles
C11_ClosedLoopSolved ==
    /\ Day10SolveReturned
    /\ Day10IsClosedLoop(mem.puzzle)
    /\ mem.solved.steps > 2
    /\ 2 * mem.solved.steps = Cardinality(mem.solved.visited)

\* solve returned on a parsed map on which S is on no closed loop
C11_OpenPathSolved ==
    /\ Day10SolveReturned
    /\ ~Day10IsClosedLoop(mem.puzzle)

\* the sides a character of the map has an exit to
Day10SidesOf(c) ==
    CASE c = "|" -> {"North", "South"} [] c = "-" -> {"East", "West"}
      [] c = "L" -> {"North", "East"} [] c = "J" -> {"North", "West"}
      [] c = "7" -> {"South", "West"} [] c = "F" -> {"South", "East"}
      [] OTHER -> {}

\* the character at column x of line y of the text, '.' outside of it
Day10CharAt(lines, x, y) ==
    IF y >= 0 /\ y < Len(lines) /\ x >= 0 /\ x < Len(lines[y + 1]) THEN lines[y + 1][x + 1] ELSE "."

\* the places of the text, as <<x, y>>
Day10Places(lines) == UNION {{<<x, y>> : x \in 0..(Len(lines[y + 1]) - 1)} : y \in 0..(Len(lines) - 1)}

Day10Chars(lines) == {Day10CharAt(lines, t[1], t[2]) : t \in Day10Places(lines)}

Day10StartsOf(lines) == {t \in Day10Places(lines) : Day10CharAt(lines, t[1], t[2]) = "S"}

\* the sides of the tile at (x, y) whose neighbour has an exit towards it
Day10Towards(lines, x, y) ==
    {d \in {"North", "East", "South", "West"} :
        \/ d = "North" /\ "South" \in Day10SidesOf(Day10CharAt(lines, x, y - 1))
        \/ d = "East" /\ "West" \in Day10SidesOf(Day10CharAt(lines, x + 1, y))
        \/ d = "South" /\ "North" \in Day10SidesOf(Day10CharAt(lines, x, y + 1))
        \/ d = "West" /\ "East" \in Day10SidesOf(Day10CharAt(lines, x - 1, y))}

\* the text is one that parse is to reject
Day10Malformed(lines) ==
    \/ Cardinality(Day10StartsOf(lines)) # 1
    \/ Day10Chars(lines) \ (Day10PipeChars \cup {"S", "."}) # {}
    \/ \E s \in Day10StartsOf(lines) : Cardinality(Day10Towards(lines, s[1], s[2])) # 2

\* parse has just returned: with a puzzle, on which solve is about to start, or
\* with an error or a panic, which ends the run
Day10ParseReturned ==
    \/ pc = "exit" /\ mem = <<>>
    \/ pc = "solve" /\ mem.steps = 0

\* C21: parse returns Err, and does not panic, when the input has no S, more
\* than one S, a character other than | - L J 7 F S and '.', or when the number
\* of the four neighbours of S with an exit towards S is not 2; otherwise it
\* stores at S the pipe that joins those two neighbours (and every pipe of the
\* text at its place), and the unreachable!() arm is never taken.
C21_ParseRejectsMalformedMaps ==
    Day10ParseReturned =>
        /\ ~IsPanic(result)
        /\ IF Day10Malformed(input)
           THEN pc = "exit" /\ "ok" \in DOMAIN result /\ ~result.ok
           ELSE /\ pc = "solve"
                /\ \E s \in Day10StartsOf(input) :
                      /\ mem.puzzle.start = Point2(s[1], s[2])
                      /\ \A d \in {"North", "East", "South", "West"} :
                            has_exit(mem.puzzle.cells[mem.puzzle.start], d)
                               <=> d \in Day10Towards(input, s[1], s[2])
                /\ \A p \in DOMAIN mem.puzzle.cells :
                      p # mem.puzzle.start =>
                         \A d \in {"North", "East", "South", "West"} :
                            has_exit(mem.puzzle.cells[p], d) <=> d \in Day10SidesOf(Day10CharAt(input, p.x, p.y))
                /\ \A t \in Day10Places(input) :
                      Day10CharAt(input, t[1], t[2]) \in Day10PipeChars
                         => Point2(t[1], t[2]) \in DOMAIN mem.puzzle.cells

\* three neighbours of S have an exit towards S and parse returned an error
C21_ThreeConnectionsRejected ==
    /\ pc = "exit" /\ mem = <<>>
    /\ input = <<<<".", "|", ".">>, <<"-", "S", "-">>, <<".", ".", ".">>>>
    /\ result = Err("expected 2 connections to start")

\* parse stored CornerF at an S whose eastern and southern neighbours join it
C21_StartPipeStored ==
    /\ pc = "solve" /\ mem.steps = 0
    /\ input = <<<<".", "-", ".">>, <<"|", "S", "-">>, <<".", "|", ".">>>>
    /\ mem.puzzle.cells[Point2(1, 1)] = "CornerF"


----------------------------------------------------------------------------
(***************************************************************************)
(* Day 15: the lens library                                                *)
(***************************************************************************)

\* u32::from(c) for the characters the model's inputs are written in
Day15CodePoint ==
    [c \in {"a", "b", "c", "m", "n", "o", "p", "q", "r", "t"} |->
        CASE c = "a" -> 97 [] c = "b" -> 98 [] c = "c" -> 99 [] c = "m" -> 109
          [] c = "n" -> 110 [] c = "o" -> 111 [] c = "p" -> 112 [] c = "q" -> 113
          [] c = "r" -> 114 [] c = "t" -> 116]

\* fn hash: value += c; value *= 17; value %= 256 for every character
RECURSIVE hash(_)
hash(s) ==
    IF s = <<>> THEN 0
    ELSE ((hash(SubSeq(s, 1, Len(s) - 1)) + Day15CodePoint[s[Len(s)]]) * 17) % 256

Whitespace == {" ", "\n"}

\* str::trim
RECURSIVE trim(_)
trim(s) ==
    IF s = <<>> THEN s
    ELSE IF s[1] \in Whitespace THEN trim(Tail(s))
    ELSE IF s[Len(s)] \in Whitespace THEN trim(SubSeq(s, 1, Len(s) - 1))
    ELSE s

\* str::split(','): the pieces between the commas, at least one
RECURSIVE split(_, _)
split(s, c) ==
    LET parts == split_once(s, c)
    IN IF ~parts.some THEN <<s>> ELSE <<parts.val[1]>> \o split(parts.val[2], c)

\* str::parse::<u8>
parse_u8(s) ==
    LET v == parse_u64(s)
    IN IF v.ok /\ v.val > 255 THEN Err("number too large to fit in target type") ELSE v

Remove == [op |-> "Remove"]
Insert(focal_len) == [op |-> "Insert", focal_len |-> focal_len]

ParsedStep_from_str(s) ==
    LET minus == split_once(s, "-")
        equals == split_once(s, "=")
    IN IF minus.some THEN Ok([label |-> minus.val[1], op |-> Remove])
       ELSE IF equals.some
       THEN LET focal_len == parse_u8(equals.val[2])
            IN IF focal_len.ok
               THEN Ok([label |-> equals.val[1], op |-> Insert(focal_len.val)])
               ELSE focal_len
       ELSE Err("unparseable step")

\* Puzzle::from_str: the steps trimmed, every one parsed, the first error returned
day15_from_str(s) ==
    LET steps == collect([i \in 1..Len(split(s, ",")) |-> trim(split(s, ",")[i])])
        parsed == collect([i \in 1..Len(steps) |-> ParsedStep_from_str(steps[i])])
        bad == {i \in 1..Len(steps) : ~parsed[i].ok}
    IN IF bad # {} THEN parsed[Min(bad)]
       ELSE Ok([steps |-> steps,
                parsed_steps |-> collect([i \in 1..Len(steps) |-> parsed[i].val])])

\* lenses.iter().position(|lense| lense.label == label), counted from 1
day15_position(lenses, label) ==
    LET hits == {i \in 1..Len(lenses) : lenses[i].label = label}
    IN IF hits = {} THEN None ELSE Some(Min(hits))

\* Vec::remove
day15_remove(lenses, idx) == SubSeq(lenses, 1, idx - 1) \o SubSeq(lenses, idx + 1, Len(lenses))

\* match lense_idx, a variant that moves a replaced lens behind all others
day15_insert_behind(lenses, lense_idx, new_lense) ==
    IF lense_idx.some THEN Append(day15_remove(lenses, lense_idx.val), new_lense)
    ELSE Append(lenses, new_lense)

\* match lense_idx { Some => lenses[lense_idx] = new_lense, None => push }
day15_insert(lenses, lense_idx, new_lense) ==
    IF lense_idx.some THEN [lenses EXCEPT ![lense_idx.val] = new_lense]
    ELSE Append(lenses, new_lense)

\* the body of the loop of part2 over parsed_steps
day15_step(boxes, parsed_step) ==
    LET box_no == hash(parsed_step.label)
        the_box == boxes[box_no]
        lense_idx == day15_position(the_box, parsed_step.label)
    IN IF parsed_step.op.op = "Remove"
       THEN IF lense_idx.some
            THEN [boxes EXCEPT ![box_no] = day15_remove(the_box, lense_idx.val)]
            ELSE boxes
       ELSE [boxes EXCEPT ![box_no] =
                day15_insert(the_box, lense_idx,
                             [label |-> parsed_step.label, focal_len |-> parsed_step.op.focal_len])]

\* the sum at the end of part2
RECURSIVE day15_box_sum(_, _, _)
day15_box_sum(box_idx, lenses, lense_idx) ==
    IF lense_idx >= Len(lenses) THEN 0
    ELSE (box_idx + 1) * (lense_idx + 1) * lenses[lense_idx + 1].focal_len
         + day15_box_sum(box_idx, lenses, lense_idx + 1)

\* the outer sum over the boxes box_idx..last, taken by halves
RECURSIVE day15_sum(_, _, _)
day15_sum(boxes, box_idx, last) ==
    IF box_idx = last THEN day15_box_sum(box_idx, boxes[box_idx], 0)
    ELSE LET mid == (box_idx + last) \div 2
         IN day15_sum(boxes, box_idx, mid) + day15_sum(boxes, mid + 1, last)

Day15MaxSteps == 4

\* rn and cm share box 0, pc is in box 3
Day15Labels == {<<"r", "n">>, <<"c", "m">>, <<"p", "c">>}
Day15Ops == {<<"-">>, <<"=", "1">>, <<"=", "9">>}
\* the steps of the inputs, and one that is no step
Day15StepTexts == {l \o o : l \in Day15Labels, o \in Day15Ops} \cup {<<"r", "n">>}

RECURSIVE Day15Join(_)
Day15Join(steps) ==
    IF Len(steps) = 1 THEN steps[1] ELSE steps[1] \o <<",">> \o Day15Join(Tail(steps))

\* "rn=1,cm-,qp=3,cm=2,qp-,pc=4,ot=9,ab=5,pc-,pc=6,ot=7"
Day15Sample ==
    <<"r", "n", "=", "1", ",", "c", "m", "-", ",", "q", "p", "=", "3", ",",
      "c", "m", "=", "2", ",", "q", "p", "-", ",", "p", "c", "=", "4", ",",
      "o", "t", "=", "9", ",", "a", "b", "=", "5", ",", "p", "c", "-", ",",
      "p", "c", "=", "6", ",", "o", "t", "=", "7">>

Day15Init ==
    /\ prog = "day15::part2"
    /\ build = "debug"
    /\ pc = "parse"
    /\ \/ input \in {Day15Sample, Day15Sample \o <<"\n">>}
       \/ \E n \in 1..Day15MaxSteps : \E steps \in [1..n -> Day15StepTexts] :
             input = Day15Join(steps)
    /\ mem = <<>> /\ stdout = <<>> /\ result = None

\* parse(&input)?; let mut boxes = 256 empty boxes
Day15Parse ==
    /\ pc = "parse"
    /\ \E puzzle \in {day15_from_str(input)} :
          IF puzzle.ok
          THEN /\ pc' = "steps"
               /\ mem' = [puzzle |-> puzzle.val, boxes |-> [b \in 0..255 |-> <<>>], i |-> 1]
               /\ UNCHANGED result
          ELSE /\ pc' = "exit"
               /\ result' = puzzle
               /\ UNCHANGED mem
    /\ UNCHANGED <<prog, build, input, stdout>>

\* one iteration of for parsed_step in puzzle.parsed_steps.iter()
Day15Step ==
    /\ pc = "steps"
    /\ mem.i <= Len(mem.puzzle.parsed_steps)
    /\ mem' = [mem EXCEPT !.boxes = day15_step(mem.boxes, mem.puzzle.parsed_steps[mem.i]),
                          !.i = mem.i + 1]
    /\ UNCHANGED <<prog, build, pc, input, stdout, result>>

Day15Return ==
    /\ pc = "steps"
    /\ mem.i > Len(mem.puzzle.parsed_steps)
    /\ pc' = "exit"
    /\ result' = Ret(day15_sum(mem.boxes, 0, 255))
    /\ UNCHANGED <<prog, build, input, mem, stdout>>

Day15Next == Day15Parse \/ Day15Step \/ Day15Return

SpecDay15 == Day15Init /\ [][Day15Next]_vars

\* The step as the input writes it
Day15Written(parsed_step) ==
    parsed_step.label \o
        (IF parsed_step.op.op = "Remove" THEN <<"-">>
         ELSE <<"=", ToString(parsed_step.op.focal_len)>>)

\* the lenses of a box without the one labelled l, in their order
Day15Without(lenses, l) == SelectSeq(lenses, LAMBDA lense : lense.label # l)

\* What the step applied last did to the boxes
Day15StepEffect(before, after, parsed_step) ==
    LET l == parsed_step.label
        b == hash(l)
        present == \E k \in 1..Len(before[b]) : before[b][k].label = l
    IN /\ \A other \in 0..255 : other # b => after[other] = before[other]
       /\ IF parsed_step.op.op = "Remove"
          THEN after[b] = Day15Without(before[b], l)
          ELSE IF present
          THEN /\ Len(after[b]) = Len(before[b])
               /\ \A k \in 1..Len(before[b]) :
                     /\ after[b][k].label = before[b][k].label
                     /\ after[b][k].focal_len =
                           IF before[b][k].label = l THEN parsed_step.op.focal_len
                           ELSE before[b][k].focal_len
          ELSE after[b] = Append(before[b], [label |-> l, focal_len |-> parsed_step.op.focal_len])

RECURSIVE Day15SumOver(_, _)
Day15SumOver(S, f) ==
    IF S = {} THEN 0
    ELSE LET x == CHOOSE y \in S : TRUE IN f[x] + Day15SumOver(S \ {x}, f)

\* the sum over all lenses of (box index + 1) * (slot index + 1) * focal length
Day15FocusingPower(boxes) ==
    LET filled == UNION {{<<b, k>> : k \in 1..Len(boxes[b])} : b \in 0..255}
    IN Day15SumOver(filled, [s \in filled |-> (s[1] + 1) * s[2] * boxes[s[1]][s[2]].focal_len])

\* the loop has applied the steps before mem.i, which are the steps of the input
\* in the order it writes them
Day15InInputOrder ==
    pc = "steps" =>
        /\ Len(mem.puzzle.parsed_steps) >= 1
        /\ Day15Join(collect([k \in 1..Len(mem.puzzle.parsed_steps) |->
                                 Day15Written(mem.puzzle.parsed_steps[k])])) = trim(input)

Day15StepHasEffect ==
    pc = "steps" /\ pc' = "steps" /\ mem'.i = mem.i + 1 =>
        Day15StepEffect(mem.boxes, mem'.boxes, mem.puzzle.parsed_steps[mem.i])

Day15ResultIsFocusingPower ==
    pc = "exit" /\ "ret" \in DOMAIN result =>
        /\ mem.i = Len(mem.puzzle.parsed_steps) + 1
        /\ result.ret = Day15FocusingPower(mem.boxes)

\* C12: part2 applies the steps in input order; 'label=f' overwrites the focal
\* length of the lens labelled so in box hash(label) and keeps its slot, or
\* appends the lens behind all lenses of the box when the label is absent;
\* 'label-' removes the lens labelled so, keeps the order of the others and
\* changes nothing when the label is absent; the result is the sum over the
\* remaining lenses of (box index + 1) * (slot index + 1) * focal length.
C12_Part2AppliesStepsInOrder ==
    /\ []Day15InInputOrder
    /\ [][Day15StepHasEffect]_vars
    /\ []Day15ResultIsFocusingPower

\* a lens was overwritten in a box of two lenses, a lens was removed in front of
\* another, and the sum of the result has more than one lens
C12_OverwrittenAndRemoved ==
    /\ pc = "exit" /\ "ret" \in DOMAIN result
    /\ result.ret = 1 * 1 * 9 + 1 * 2 * 9
    /\ mem.puzzle.parsed_steps =
          <<[label |-> <<"r", "n">>, op |-> Insert(1)], [label |-> <<"c", "m">>, op |-> Insert(1)],
            [label |-> <<"r", "n">>, op |-> Insert(9)], [label |-> <<"c", "m">>, op |-> Insert(9)]>>
    /\ mem.boxes[0] = <<[label |-> <<"r", "n">>, focal_len |-> 9], [label |-> <<"c", "m">>, focal_len |-> 9]>>


----------------------------------------------------------------------------
(***************************************************************************)
(* Day 7: hands with jokers                                                *)
(***************************************************************************)

with_jokers(cards) == [i \in 1..5 |-> IF cards[i] = "J" THEN Joker ELSE cards[i]]

\* Iterator::max over ranks, a variant that takes the least
day07_min(ranks) == CHOOSE r \in ranks : \A q \in ranks : RankValue[r] <= RankValue[q]

\* Iterator::max().unwrap() over ranks, ordered by their discriminants
day07_max(ranks) == CHOOSE r \in ranks : \A q \in ranks : RankValue[r] >= RankValue[q]

classify_joker(cards) ==
    LET joker_count == Cardinality({i \in 1..5 : cards[i] = Joker})
        non_jokers == SelectSeq(cards, LAMBDA card : card # Joker)
    IN CASE joker_count = 5 -> "FiveOfAKind"
         [] joker_count = 4 -> "FiveOfAKind"
         [] joker_count = 3 ->
                IF non_jokers[1] = non_jokers[2] THEN "FiveOfAKind" ELSE "FourOfAKind"
         [] joker_count = 2 ->
                day07_max({day07_max({classify(<<non_jokers[1], non_jokers[2], non_jokers[3], joker1, joker2>>) :
                                         joker2 \in NON_JOKERS}) :
                              joker1 \in NON_JOKERS})
         [] joker_count = 1 ->
                day07_max({classify(<<non_jokers[1], non_jokers[2], non_jokers[3], non_jokers[4], joker>>) :
                              joker \in NON_JOKERS})
         [] joker_count = 0 -> classify(cards)

\* the cards the hands of the model are dealt from: five kinds and the J
Day07JokerCards == {"A", "K", "Q", "T", "9", "J"}

Day07JokerInit ==
    /\ prog = "day07::classify_joker"
    /\ build = "debug"
    /\ pc = "with_jokers"
    /\ input \in [1..5 -> Day07JokerCards]
    /\ mem = <<>> /\ stdout = <<>> /\ result = None

\* let cards = with_jokers(&line.hand.cards)
Day07WithJokers ==
    /\ pc = "with_jokers"
    /\ pc' = "classify_joker"
    /\ mem' = [cards |-> collect(with_jokers(input))]
    /\ UNCHANGED <<prog, build, input, stdout, result>>

\* let rank = classify_joker(&cards)
Day07ClassifyJoker ==
    /\ pc = "classify_joker"
    /\ pc' = "return"
    /\ result' = Ret(classify_joker(mem.cards))
    /\ UNCHANGED <<prog, build, input, mem, stdout>>

Day07JokerNext == Day07WithJokers \/ Day07ClassifyJoker

SpecDay07Joker == Day07JokerInit /\ [][Day07JokerNext]_vars

\* the hands that replace every Joker of cards by one of the 13 other cards
Day07Replacements(cards) ==
    LET at(i) == IF cards[i] = Joker THEN NON_JOKERS ELSE {cards[i]}
    IN {<<a, b, c, d, e>> : a \in at(1), b \in at(2), c \in at(3), d \in at(4), e \in at(5)}

\* C13: for every hand of five cards whose J are Jokers, classify_joker returns
\* the greatest Rank classify gives to any hand that replaces each Joker by one
\* of the 13 cards of NON_JOKERS, whether it has 0, 1, 2, 3, 4 or 5 jokers.
C13_ClassifyJokerIsBestReplacement ==
    pc = "return" =>
        /\ \A i \in 1..5 : mem.cards[i] # "J" /\ (mem.cards[i] = Joker <=> input[i] = "J")
        /\ RankValue[result.ret] = Max({RankValue[classify(h)] : h \in Day07Replacements(mem.cards)})

\* two jokers between three different cards make a triple
C13_TwoJokersMakeTriple ==
    /\ pc = "return"
    /\ mem.cards = <<Joker, "A", Joker, "K", "Q">>
    /\ result = Ret("Triple")


----------------------------------------------------------------------------
(***************************************************************************)
(* Day 1: calibration values                                               *)
(***************************************************************************)

DIGITS == <<<<"0">>, <<"1">>, <<"2">>, <<"3">>, <<"4">>, <<"5">>, <<"6">>, <<"7">>, <<"8">>, <<"9">>>>

DIGITS_AND_DIGIT_WORDS ==
    <<<<"0">>, <<"1">>, <<"2">>, <<"3">>,
      <<"4">>, <<"5">>, <<"6">>, <<"7">>,
      <<"8">>, <<"9">>, <<"z", "e", "r", "o">>, <<"o", "n", "e">>,
      <<"t", "w", "o">>, <<"t", "h", "r", "e", "e">>, <<"f", "o", "u", "r">>, <<"f", "i", "v", "e">>,
      <<"s", "i", "x">>, <<"s", "e", "v", "e", "n">>, <<"e", "i", "g", "h", "t">>, <<"n", "i", "n", "e">>>>

\* needle is in haystack at byte index idx, counted from 0
day01_at(haystack, needle, idx) ==
    /\ idx + Len(needle) <= Len(haystack)
    /\ \A k \in 1..Len(needle) : haystack[idx + k] = needle[k]

\* str::find
find(haystack, needle) ==
    LET hits == {idx \in 0..Len(haystack) : day01_at(haystack, needle, idx)}
    IN IF hits = {} THEN None ELSE Some(Min(hits))

\* str::rfind, a variant that finds the first occurrence
day01_rfind_first(haystack, needle) ==
    LET hits == {idx \in 0..Len(haystack) : day01_at(haystack, needle, idx)}
    IN IF hits = {} THEN None ELSE Some(Min(hits))

\* str::rfind
rfind(haystack, needle) ==
    LET hits == {idx \in 0..Len(haystack) : day01_at(haystack, needle, idx)}
    IN IF hits = {} THEN None ELSE Some(Max(hits))

\* the loop of find_left from the needle at index digit on
RECURSIVE day01_left_loop(_, _, _, _)
day01_left_loop(haystack, digits, digit, matched_digit) ==
    IF digit >= Len(digits) THEN matched_digit
    ELSE LET needle == digits[digit + 1]
             idx == find(haystack, needle)
         IN IF idx.some
            THEN day01_left_loop(SubSeq(haystack, 1, idx.val + Len(needle)), digits,
                                 digit + 1, Some(digit % 10))
            ELSE day01_left_loop(haystack, digits, digit + 1, matched_digit)

find_left(s, digits) ==
    LET matched_digit == day01_left_loop(s, digits, 0, None)
    IN IF matched_digit.some THEN matched_digit.val ELSE 0

RECURSIVE day01_right_loop(_, _, _, _)
day01_right_loop(haystack, digits, digit, matched_digit) ==
    IF digit >= Len(digits) THEN matched_digit
    ELSE LET needle == digits[digit + 1]
             idx == rfind(haystack, needle)
         IN IF idx.some
            THEN day01_right_loop(SubSeq(haystack, idx.val + 1, Len(haystack)), digits,
                                  digit + 1, Some(digit % 10))
            ELSE day01_right_loop(haystack, digits, digit + 1, matched_digit)

find_right(s, digits) ==
    LET matched_digit == day01_right_loop(s, digits, 0, None)
    IN IF matched_digit.some THEN matched_digit.val ELSE 0

Day01MaxTokens == 3

\* the pieces the lines of the model are put together from: numerals, a letter,
\* words, and parts of words that make overlapping words
Day01Tokens ==
    {<<"1">>, <<"7">>, <<"x">>, <<"o", "n", "e">>,
     <<"t", "w", "o">>, <<"e", "i", "g", "h", "t">>, <<"t", "h", "r", "e", "e">>, <<"n", "i", "n", "e">>,
     <<"t", "w">>, <<"e", "i", "g", "h">>, <<"o", "n">>, <<"n", "e">>}

Day01Init ==
    /\ prog = "day01::Value::from_str"
    /\ build = "debug"
    /\ pc = "find_left"
    /\ \E n \in 0..Day01MaxTokens : \E tokens \in [1..n -> Day01Tokens] :
          input = Flatten(tokens)
    /\ mem = <<>> /\ stdout = <<>> /\ result = None

\* find_left(s, DIGITS_AND_DIGIT_WORDS)
Day01FindLeft ==
    /\ pc = "find_left"
    /\ pc' = "find_right"
    /\ mem' = [left |-> find_left(input, DIGITS_AND_DIGIT_WORDS)]
    /\ UNCHANGED <<prog, build, input, stdout, result>>

\* find_right(s, DIGITS_AND_DIGIT_WORDS)
Day01FindRight ==
    /\ pc = "find_right"
    /\ pc' = "value"
    /\ mem' = [left |-> mem.left, right |-> find_right(input, DIGITS_AND_DIGIT_WORDS)]
    /\ UNCHANGED <<prog, build, input, stdout, result>>

\* Ok(Value { calibration1, calibration2 })
Day01Value ==
    /\ pc = "value"
    /\ pc' = "return"
    /\ result' = Ok([calibration1 |-> find_left(input, DIGITS) * 10 + find_right(input, DIGITS),
                     calibration2 |-> mem.left * 10 + mem.right])
    /\ UNCHANGED <<prog, build, input, mem, stdout>>

Day01Next == Day01FindLeft \/ Day01FindRight \/ Day01Value

SpecDay01 == Day01Init /\ [][Day01Next]_vars

\* where a numeral or a spelled-out digit starts in the line, with its value
Day01Occurrences(line) ==
    {<<idx, digit % 10>> : idx \in 0..Len(line), digit \in 0..19} \cap
    {o \in (0..Len(line)) \X (0..9) :
        \E digit \in {o[2], o[2] + 10} : day01_at(line, DIGITS_AND_DIGIT_WORDS[digit + 1], o[1])}

\* C14: find_left over DIGITS_AND_DIGIT_WORDS returns the value of the numeral
\* or spelled-out digit that starts earliest in the line and find_right the
\* value of the one that starts latest, also when spelled-out digits overlap;
\* the calibration value of the line is 10 * first + last.
C14_FirstAndLastOccurrence ==
    pc = "return" /\ Day01Occurrences(input) # {} =>
        LET starts == {o[1] : o \in Day01Occurrences(input)}
        IN /\ <<Min(starts), mem.left>> \in Day01Occurrences(input)
           /\ <<Max(starts), mem.right>> \in Day01Occurrences(input)
           /\ \A o \in Day01Occurrences(input) :
                 /\ o[1] = Min(starts) => o[2] = mem.left
                 /\ o[1] = Max(starts) => o[2] = mem.right
           /\ result = Ok([calibration1 |-> result.val.calibration1,
                           calibration2 |-> 10 * mem.left + mem.right])

\* 'eightwo' before a letter: the first is eight, the last is two
C14_OverlappingWords ==
    /\ pc = "return"
    /\ input = <<"e", "i", "g", "h", "t", "w", "o", "x">>
    /\ result.val.calibration2 = 82


----------------------------------------------------------------------------
(***************************************************************************)
(* Day 14: part 1, the load after one tilt to the north                    *)
(***************************************************************************)

Day14Part1MaxRows == 3
Day14Part1MaxCols == 2

Day14Part1Init ==
    /\ prog = "day14::part1"
    /\ build \in Builds
    /\ pc = "tilt_north"
    /\ \/ input = Day14Sample
       \/ \E h \in 1..Day14Part1MaxRows : \E w \in 1..Day14Part1MaxCols :
             input \in [1..h -> [1..w -> {"O", "#", "."}]]
    /\ mem = [puzzle |-> day14_from_str(input), cells |-> day14_from_str(input).cells]
    /\ stdout = <<>> /\ result = None

\* tilt_north(puzzle, &mut cells)
Day14Part1TiltNorth ==
    /\ pc = "tilt_north"
    /\ pc' = "calculate"
    /\ mem' = [mem EXCEPT !.cells = tilt_north(mem.puzzle, mem.cells)]
    /\ UNCHANGED <<prog, build, input, stdout, result>>

\* puzzle.cols - y is below 0 for a round rock of cells
day14_overflows(puzzle, cells) ==
    \E y \in 1..puzzle.rows : \E x \in 1..puzzle.cols :
        cells[y][x] = "Round" /\ puzzle.cols - (y - 1) < 0

\* calculate(puzzle, &cells): the subtraction panics in a debug build and wraps
\* in a release build, where the sums wrap as well
Day14Part1Calculate ==
    /\ pc = "calculate"
    /\ pc' = "exit"
    /\ result' = IF ~day14_overflows(mem.puzzle, mem.cells)
                 THEN Ret(calculate(mem.puzzle, mem.cells))
                 ELSE IF build = "debug" THEN Panic("attempt to subtract with overflow")
                 ELSE Ret(calculate(mem.puzzle, mem.cells) % UsizeModulus)
    /\ UNCHANGED <<prog, build, input, mem, stdout>>

Day14Part1Next == Day14Part1TiltNorth \/ Day14Part1Calculate

SpecDay14Part1 == Day14Part1Init /\ [][Day14Part1Next]_vars

\* after is before tilted to the north: the cubes stay, and in every column
\* every run of cells between cubes keeps its number of round rocks, all of
\* them at its north end
Day14TiltedNorth(puzzle, before, after) ==
    \A x \in 1..puzzle.cols :
        /\ \A y \in 1..puzzle.rows : before[y][x] = "Cube" <=> after[y][x] = "Cube"
        /\ \A y \in 2..puzzle.rows :
              after[y][x] = "Round" => after[y - 1][x] \in {"Round", "Cube"}
        /\ \A lo \in 1..puzzle.rows : \A hi \in lo..puzzle.rows :
              (/\ \A y \in lo..hi : before[y][x] # "Cube"
               /\ lo = 1 \/ before[lo - 1][x] = "Cube"
               /\ hi = puzzle.rows \/ before[hi + 1][x] = "Cube")
              => Cardinality({y \in lo..hi : before[y][x] = "Round"})
                    = Cardinality({y \in lo..hi : after[y][x] = "Round"})

\* C15: part1 returns, for the platform after one tilt to the north, the sum
\* over all round rocks of (rows of the platform - row index of the rock), for
\* every rectangular platform whatever its width and height.
C15_Part1IsNorthLoad ==
    pc = "exit" =>
        /\ Day14TiltedNorth(mem.puzzle, mem.puzzle.cells, mem.cells)
        /\ result = Ret(Day14NorthLoad(mem.puzzle, mem.cells))

\* the same for the platforms that have as many rows as columns
C15_SquarePlatformIsNorthLoad ==
    pc = "exit" /\ mem.puzzle.rows = mem.puzzle.cols =>
        /\ Day14TiltedNorth(mem.puzzle, mem.puzzle.cells, mem.cells)
        /\ result = Ret(Day14NorthLoad(mem.puzzle, mem.cells))

\* part1 returned 2 for the platform of one row 'O.', whose load is 1
C15_WidePlatformOvercounted ==
    /\ pc = "exit"
    /\ input = <<<<"O", ".">>>>
    /\ Day14NorthLoad(mem.puzzle, mem.cells) = 1
    /\ result = Ret(2)

\* part1 panicked on a platform of three rows and one column
C15_TallPlatformPanicked ==
    /\ pc = "exit"
    /\ input = <<<<"#">>, <<"#">>, <<"O">>>>
    /\ build = "debug"
    /\ IsPanic(result)


----------------------------------------------------------------------------
(***************************************************************************)
(* Day 13: mirrors with a smudge.  part2 is run on one valley.             *)
(***************************************************************************)

\* Puzzle::from_str on one block: its lines, and its columns as strings
day13_from_str(block) ==
    LET rows == Len(block)
        cols == Len(block[1])
    IN [horizontal_valley |-> block,
        vertical_valley |-> collect([col \in 1..cols |-> collect([row \in 1..rows |-> block[row][col]])])]

\* valley.get(idx), idx counted from 0
day13_get(valley, idx) == IF idx < Len(valley) THEN Some(valley[idx + 1]) ELSE None

\* zip(x.chars(), y.chars()).filter(|(x, y)| x != y).count()
day13_count(x, y) == Cardinality({k \in 1..Min({Len(x), Len(y)}) : x[k] # y[k]})

\* the last arm of the match, a variant without almost_pair.is_none()
day13_unequal_pair_any(almost_pair, x, y) ==
    IF day13_count(x, y) = 1 THEN Ok(Some(x)) ELSE Err("sob")

\* (Some(x), Some(y)) => one differing character and no almost pair before
day13_unequal_pair(almost_pair, x, y) ==
    IF day13_count(x, y) = 1 /\ ~almost_pair.some THEN Ok(Some(x)) ELSE Err("sob")

\* (0..i).try_fold(None, ..) from j on
RECURSIVE day13_try_fold(_, _, _, _)
day13_try_fold(valley, i, j, almost_pair) ==
    IF j >= i THEN Ok(almost_pair)
    ELSE LET x == day13_get(valley, i - j - 1)
             y == day13_get(valley, i + j)
             step == IF x.some /\ y.some /\ x.val # y.val
                     THEN day13_unequal_pair(almost_pair, x.val, y.val)
                     ELSE Ok(almost_pair)
         IN IF step.ok THEN day13_try_fold(valley, i, j + 1, step.val) ELSE step

\* for i in 1..valley.len(), from i on
RECURSIVE day13_almost_loop(_, _)
day13_almost_loop(valley, i) ==
    IF i >= Len(valley) THEN None
    ELSE LET folded == day13_try_fold(valley, i, 0, None)
         IN IF folded.ok /\ folded.val.some THEN Some(i)
            ELSE day13_almost_loop(valley, i + 1)

almost_reflects(valley) == day13_almost_loop(valley, 1)

Day13MaxRows == 4
Day13MaxCols == 3

\* the two valleys of tests::SAMPLE
Day13Sample1 ==
    <<<<"#", ".", "#", "#", ".", ".", "#", "#", ".">>,
      <<".", ".", "#", ".", "#", "#", ".", "#", ".">>,
      <<"#", "#", ".", ".", ".", ".", ".", ".", "#">>,
      <<"#", "#", ".", ".", ".", ".", ".", ".", "#">>,
      <<".", ".", "#", ".", "#", "#", ".", "#", ".">>,
      <<".", ".", "#", "#", ".", ".", "#", "#", ".">>,
      <<"#", ".", "#", ".", "#", "#", ".", "#", ".">>>>

Day13Sample2 ==
    <<<<"#", ".", ".", ".", "#", "#", ".", ".", "#">>,
      <<"#", ".", ".", ".", ".", "#", ".", ".", "#">>,
      <<".", ".", "#", "#", ".", ".", "#", "#", "#">>,
      <<"#", "#", "#", "#", "#", ".", "#", "#", ".">>,
      <<"#", "#", "#", "#", "#", ".", "#", "#", ".">>,
      <<".", ".", "#", "#", ".", ".", "#", "#", "#">>,
      <<"#", ".", ".", ".", ".", "#", ".", ".", "#">>>>

Day13Init ==
    /\ prog = "day13::part2"
    /\ build = "debug"
    /\ pc = "parse"
    /\ \/ input \in {Day13Sample1, Day13Sample2}
       \/ \E h \in 1..Day13MaxRows : \E w \in 1..Day13MaxCols :
             input \in [1..h -> [1..w -> {"#", "."}]]
    /\ mem = <<>> /\ stdout = <<>> /\ result = None

Day13Parse ==
    /\ pc = "parse"
    /\ pc' = "rows"
    /\ mem' = [puzzle |-> day13_from_str(input), count |-> 0]
    /\ UNCHANGED <<prog, build, input, stdout, result>>

\* if let Some(rows) = almost_reflects(&puzzle.horizontal_valleys[i])
Day13Rows ==
    /\ pc = "rows"
    /\ \E rows \in {almost_reflects(mem.puzzle.horizontal_valley)} :
          /\ mem' = [puzzle |-> mem.puzzle, rows |-> rows,
                     count |-> IF rows.some THEN mem.count + rows.val * 100 ELSE mem.count]
          /\ pc' = IF rows.some THEN "return" ELSE "cols"
    /\ UNCHANGED <<prog, build, input, stdout, result>>

\* else if let Some(cols) = almost_reflects(&puzzle.vertical_valleys[i]),
\* else unreachable!()
Day13Cols ==
    /\ pc = "cols"
    /\ \E cols \in {almost_reflects(mem.puzzle.vertical_valley)} :
          /\ mem' = [puzzle |-> mem.puzzle, rows |-> mem.rows, cols |-> cols,
                     count |-> IF cols.some THEN mem.count + cols.val ELSE mem.count]
          /\ IF cols.some THEN pc' = "return" /\ UNCHANGED result
             ELSE /\ pc' = "exit"
                  /\ result' = Panic("internal error: entered unreachable code")
    /\ UNCHANGED <<prog, build, input, stdout>>

Day13Return ==
    /\ pc = "return"
    /\ pc' = "exit"
    /\ result' = Ret(mem.count)
    /\ UNCHANGED <<prog, build, input, mem, stdout>>

Day13Next == Day13Parse \/ Day13Rows \/ Day13Cols \/ Day13Return

SpecDay13 == Day13Init /\ [][Day13Next]_vars

\* the differing characters of all pairs of rows mirrored across the line
\* before row i that both exist
Day13Differences(valley, i) ==
    {<<j, k>> \in (0..(i - 1)) \X (1..Len(valley[1])) :
        /\ i + j < Len(valley)
        /\ valley[i - j][k] # valley[i + j + 1][k]}

\* what almost_reflects is to return for valley
Day13Smudged(valley) ==
    LET lines == {i \in 1..(Len(valley) - 1) : Cardinality(Day13Differences(valley, i)) = 1}
    IN IF lines = {} THEN None ELSE Some(Min(lines))

\* C16: almost_reflects returns the smallest i with 1 <= i < number of rows for
\* which the mirrored pairs of rows (i-1-j, i+j) that both exist differ in
\* exactly one character in all; it returns None if there is no such i, and it
\* never returns a line across which the pattern reflects perfectly.
C16_AlmostReflectsFindsSmudgedLine ==
    /\ pc \in {"cols", "return", "exit"} =>
          /\ mem.rows = Day13Smudged(mem.puzzle.horizontal_valley)
          /\ mem.rows.some => Day13Differences(mem.puzzle.horizontal_valley, mem.rows.val) # {}
    /\ pc \in {"return", "exit"} /\ "cols" \in DOMAIN mem =>
          /\ mem.cols = Day13Smudged(mem.puzzle.vertical_valley)
          /\ mem.cols.some => Day13Differences(mem.puzzle.vertical_valley, mem.cols.val) # {}

\* the pattern reflects perfectly across the line before row 1, and the smudged
\* line before row 2, with two mirrored pairs, is returned
C16_SmudgedLineBehindPerfectOne ==
    /\ pc = "return"
    /\ Len(mem.puzzle.horizontal_valley) = 4
    /\ Day13Differences(mem.puzzle.horizontal_valley, 1) = {}
    /\ mem.rows = Some(2)
    /\ mem.count = 200


----------------------------------------------------------------------------
(***************************************************************************)
(* math: gcd and lcm.  gcd is run one iteration of its loop at a time; mem *)
(* keeps a, b and the values computed so far.                              *)
(***************************************************************************)

\* if a > b { a = a % b } else { b = b % a }, a variant that takes a % b in both
math_gcd_step_same(a, b) ==
    IF a > b THEN [a |-> a % b, b |-> b] ELSE [a |-> a, b |-> a % b]

\* if a > b { a = a % b } else { b = b % a }
math_gcd_step(a, b) ==
    IF a > b THEN [a |-> a % b, b |-> b] ELSE [a |-> a, b |-> b % a]

RECURSIVE gcd(_, _)
gcd(a, b) ==
    IF a = 0 THEN b
    ELSE IF b = 0 THEN a
    ELSE gcd(math_gcd_step(a, b).a, math_gcd_step(a, b).b)

\* the values lcm computes after the gcd, a variant that multiplies first
math_lcm_values_product_first(a, b, g) == <<a * b, (a * b) \div g>>

\* a * (b / gcd(a, b)): the quotient, then the product
math_lcm_values(a, b, g) == <<b \div g, a * (b \div g)>>

lcm(a, b) == math_lcm_values(a, b, gcd(a, b))[2]

MathMaxArg == 12

MathInit ==
    /\ prog \in {"math::gcd", "math::lcm"}
    /\ build = "debug"
    /\ pc = "loop"
    /\ input \in (0..MathMaxArg) \X (0..MathMaxArg)
    /\ mem = [a |-> input[1], b |-> input[2], values |-> <<>>]
    /\ stdout = <<>> /\ result = None

\* one iteration of the loop of gcd that does not return
MathGcdStep ==
    /\ pc = "loop"
    /\ mem.a # 0 /\ mem.b # 0
    /\ \E next \in {math_gcd_step(mem.a, mem.b)} :
          mem' = [a |-> next.a, b |-> next.b,
                  values |-> Append(mem.values, IF mem.a > mem.b THEN next.a ELSE next.b)]
    /\ UNCHANGED <<prog, build, pc, input, stdout, result>>

\* if a == T::default() { return b }  if b == T::default() { return a }
MathGcdReturn ==
    /\ pc = "loop"
    /\ mem.a = 0 \/ mem.b = 0
    /\ \E g \in {IF mem.a = 0 THEN mem.b ELSE mem.a} :
          IF prog = "math::gcd"
          THEN pc' = "exit" /\ result' = Ret(g) /\ UNCHANGED mem
          ELSE /\ pc' = "lcm"
               /\ mem' = [a |-> mem.a, b |-> mem.b, values |-> mem.values, gcd |-> g]
               /\ UNCHANGED result
    /\ UNCHANGED <<prog, build, input, stdout>>

\* a * (b / gcd(a, b)), the division panics when the gcd is 0
MathLcmReturn ==
    /\ pc = "lcm"
    /\ pc' = "exit"
    /\ IF mem.gcd = 0
       THEN result' = Panic("attempt to divide by zero") /\ UNCHANGED mem
       ELSE \E values \in {math_lcm_values(input[1], input[2], mem.gcd)} :
               /\ result' = Ret(values[2])
               /\ mem' = [mem EXCEPT !.values = mem.values \o values]
    /\ UNCHANGED <<prog, build, input, stdout>>

MathNext == MathGcdStep \/ MathGcdReturn \/ MathLcmReturn

SpecMath == MathInit /\ [][MathNext]_vars

FairSpecMath == SpecMath /\ WF_vars(MathNext)

Divides(d, n) == n % d = 0

\* the greatest common divisor; every number divides 0, and the greatest
\* common divisor of 0 and 0 is 0
MathGcd(a, b) ==
    IF a = 0 /\ b = 0 THEN 0
    ELSE Max({d \in 1..Max({a, b}) : Divides(d, a) /\ Divides(d, b)})

MathGcdReturned ==
    pc = "exit" /\ prog = "math::gcd" =>
        /\ result = Ret(MathGcd(input[1], input[2]))
        /\ result = Ret(gcd(input[2], input[1]))
        /\ input[2] = 0 => result = Ret(input[1])
        /\ input[1] = 0 => result = Ret(input[2])

\* C17: for all non-negative a and b, gcd(a, b) terminates and returns the
\* greatest common divisor of a and b; gcd(a, 0) = gcd(0, a) = a and
\* gcd(a, b) = gcd(b, a).
C17_GcdTerminatesWithGreatestCommonDivisor ==
    /\ []MathGcdReturned
    /\ <>(pc = "exit")

\* gcd(8, 12) returned 4 after more than one iteration of its loop
C17_GcdOfEightAndTwelve ==
    /\ pc = "exit" /\ prog = "math::gcd"
    /\ input = <<8, 12>>
    /\ Len(mem.values) > 1
    /\ result = Ret(4)

\* C18: for all positive a and b, lcm(a, b) is the least positive integer that
\* both divide, so lcm(a, b) * gcd(a, b) = a * b and lcm(a, b) = lcm(b, a); no
\* value lcm computes on the way exceeds the result.
C18_LcmIsLeastCommonMultiple ==
    pc = "exit" /\ prog = "math::lcm" /\ input[1] > 0 /\ input[2] > 0 =>
        /\ result = Ret(Min({m \in 1..(input[1] * input[2]) : Divides(input[1], m) /\ Divides(input[2], m)}))
        /\ result.ret * gcd(input[1], input[2]) = input[1] * input[2]
        /\ result = Ret(lcm(input[1], input[2]))
        /\ result = Ret(lcm(input[2], input[1]))
        /\ \A k \in 1..Len(mem.values) : mem.values[k] <= result.ret

\* lcm(4, 6) returned 12, less than 4 * 6, after a gcd of some iterations
C18_LcmOfFourAndSix ==
    /\ pc = "exit" /\ prog = "math::lcm"
    /\ input = <<4, 6>>
    /\ Len(mem.values) > 2
    /\ result = Ret(12)


----------------------------------------------------------------------------
(***************************************************************************)
(* matrix: a dense matrix, stored row by row, and the iterators over one   *)
(* of its columns or rows.  mem.matrix is the matrix, mem.it the iterator  *)
(* that borrows it (None when there is none), mem.yielded the items the    *)
(* iterator has yielded and mem.last the call made last.  Indices into     *)
(* data count from 0 as in the source; a reference to a cell is its index  *)
(* with its value.                                                         *)
(***************************************************************************)

\* vec![default; width * height]
Matrix_new(width, height, default) ==
    [data |-> [i \in 1..(width * height) |-> default], width |-> width, height |-> height]

Matrix_get(self, x, y) == self.data[x + y * self.width + 1]

Matrix_set(self, x, y, v) == [self EXCEPT !.data[x + y * self.width + 1] = v]

\* a variant of swap that overwrites the second cell and keeps the first
Matrix_swap_copy(self, x1, y1, x2, y2) ==
    [self EXCEPT !.data[x2 + y2 * self.width + 1] = self.data[x1 + y1 * self.width + 1]]

\* self.data.swap(x1 + y1 * self.width, x2 + y2 * self.width)
Matrix_swap(self, x1, y1, x2, y2) ==
    [self EXCEPT !.data[x1 + y1 * self.width + 1] = self.data[x2 + y2 * self.width + 1],
                 !.data[x2 + y2 * self.width + 1] = self.data[x1 + y1 * self.width + 1]]

Matrix_col(self, x) == [kind |-> "Col", x |-> x, y_low |-> 0, y_high |-> self.height]

Matrix_row(self, y) == [kind |-> "Row", x_low |-> 0, x_high |-> self.width, y |-> y]

\* &self.matrix.data[index]
Matrix_ref(matrix, index) == [index |-> index, val |-> matrix.data[index + 1]]

\* Col::next: the iterator after the call and the item returned
Col_next(self, matrix) ==
    IF self.y_low < self.y_high
    THEN [it |-> [self EXCEPT !.y_low = self.y_low + 1],
          item |-> Some(Matrix_ref(matrix, self.x + self.y_low * matrix.width))]
    ELSE [it |-> self, item |-> None]

Col_size_hint(self) == <<self.y_high - self.y_low, Some(self.y_high - self.y_low)>>

\* a variant of Col::next_back that yields the cell at y_low
Col_next_back_low(self, matrix) ==
    IF self.y_high > self.y_low
    THEN [it |-> [self EXCEPT !.y_high = self.y_high - 1],
          item |-> Some(Matrix_ref(matrix, self.x + self.y_low * matrix.width))]
    ELSE [it |-> self, item |-> None]

Col_next_back(self, matrix) ==
    IF self.y_high > self.y_low
    THEN [it |-> [self EXCEPT !.y_high = self.y_high - 1],
          item |-> Some(Matrix_ref(matrix, self.x + (self.y_high - 1) * matrix.width))]
    ELSE [it |-> self, item |-> None]

Row_next(self, matrix) ==
    IF self.x_low < self.x_high
    THEN [it |-> [self EXCEPT !.x_low = self.x_low + 1],
          item |-> Some(Matrix_ref(matrix, self.x_low + self.y * matrix.width))]
    ELSE [it |-> self, item |-> None]

Row_size_hint(self) == <<self.x_high - self.x_low, Some(self.x_high - self.x_low)>>

Row_next_back(self, matrix) ==
    IF self.x_high > self.x_low
    THEN [it |-> [self EXCEPT !.x_high = self.x_high - 1],
          item |-> Some(Matrix_ref(matrix, (self.x_high - 1) + self.y * matrix.width))]
    ELSE [it |-> self, item |-> None]

MatrixMaxWidth == 3
MatrixMaxHeight == 2
MatrixValues == {0, 1}

\* Matrix::new(width, height, default)
MatrixInit ==
    /\ prog = "matrix"
    /\ build = "debug"
    /\ pc = "matrix"
    /\ input \in (0..MatrixMaxWidth) \X (0..MatrixMaxHeight) \X MatrixValues
    /\ mem = [matrix |-> Matrix_new(input[1], input[2], input[3]),
              it |-> None, yielded |-> <<>>, last |-> [op |-> "new"]]
    /\ stdout = <<>> /\ result = None

MatrixGet ==
    /\ pc = "matrix"
    /\ \E x \in 0..(mem.matrix.width - 1) : \E y \in 0..(mem.matrix.height - 1) :
          /\ result' = Ret(Matrix_get(mem.matrix, x, y))
          /\ mem' = [mem EXCEPT !.last = [op |-> "get", x |-> x, y |-> y]]
    /\ UNCHANGED <<prog, build, pc, input, stdout>>

MatrixSet ==
    /\ pc = "matrix"
    /\ \E x \in 0..(mem.matrix.width - 1) : \E y \in 0..(mem.matrix.height - 1) :
       \E v \in MatrixValues :
          mem' = [mem EXCEPT !.matrix = Matrix_set(mem.matrix, x, y, v),
                             !.last = [op |-> "set", x |-> x, y |-> y, v |-> v]]
    /\ UNCHANGED <<prog, build, pc, input, stdout, result>>

MatrixSwap ==
    /\ pc = "matrix"
    /\ \E x1 \in 0..(mem.matrix.width - 1) : \E y1 \in 0..(mem.matrix.height - 1) :
       \E x2 \in 0..(mem.matrix.width - 1) : \E y2 \in 0..(mem.matrix.height - 1) :
          mem' = [mem EXCEPT !.matrix = Matrix_swap(mem.matrix, x1, y1, x2, y2),
                             !.last = [op |-> "swap", x1 |-> x1, y1 |-> y1, x2 |-> x2, y2 |-> y2]]
    /\ UNCHANGED <<prog, build, pc, input, stdout, result>>

MatrixCol ==
    /\ pc = "matrix"
    /\ \E x \in 0..(mem.matrix.width - 1) :
          mem' = [mem EXCEPT !.it = Some(Matrix_col(mem.matrix, x)), !.yielded = <<>>,
                             !.last = [op |-> "col", x |-> x]]
    /\ pc' = "iterator"
    /\ UNCHANGED <<prog, build, input, stdout, result>>

MatrixRow ==
    /\ pc = "matrix"
    /\ \E y \in 0..(mem.matrix.height - 1) :
          mem' = [mem EXCEPT !.it = Some(Matrix_row(mem.matrix, y)), !.yielded = <<>>,
                             !.last = [op |-> "row", y |-> y]]
    /\ pc' = "iterator"
    /\ UNCHANGED <<prog, build, input, stdout, result>>

\* a call of the iterator: its new state, the item returned, the item recorded
matrix_called(called, op) ==
    /\ mem' = [mem EXCEPT !.it = Some(called.it),
                          !.yielded = IF called.item.some
                                      THEN Append(mem.yielded, [op |-> op, index |-> called.item.val.index])
                                      ELSE mem.yielded,
                          !.last = [op |-> op]]
    /\ result' = called.item
    /\ UNCHANGED <<prog, build, pc, input, stdout>>

MatrixColNext ==
    /\ pc = "iterator" /\ mem.it.val.kind = "Col"
    /\ matrix_called(Col_next(mem.it.val, mem.matrix), "next")

MatrixColNextBack ==
    /\ pc = "iterator" /\ mem.it.val.kind = "Col"
    /\ matrix_called(Col_next_back(mem.it.val, mem.matrix), "next_back")

MatrixRowNext ==
    /\ pc = "iterator" /\ mem.it.val.kind = "Row"
    /\ matrix_called(Row_next(mem.it.val, mem.matrix), "next")

MatrixRowNextBack ==
    /\ pc = "iterator" /\ mem.it.val.kind = "Row"
    /\ matrix_called(Row_next_back(mem.it.val, mem.matrix), "next_back")

\* the iterator goes out of scope and the matrix can be written again
MatrixDrop ==
    /\ pc = "iterator"
    /\ pc' = "matrix"
    /\ mem' = [mem EXCEPT !.it = None, !.yielded = <<>>, !.last = [op |-> "drop"]]
    /\ UNCHANGED <<prog, build, input, stdout, result>>

MatrixNext ==
    \/ MatrixGet
    \/ MatrixSet
    \/ MatrixSwap
    \/ MatrixCol
    \/ MatrixRow
    \/ MatrixColNext
    \/ MatrixColNextBack
    \/ MatrixRowNext
    \/ MatrixRowNextBack
    \/ MatrixDrop

SpecMatrix == MatrixInit /\ [][MatrixNext]_vars

\* the cell (x, y) of a matrix
MatrixCell(matrix, x, y) == matrix.data[y * matrix.width + x + 1]

MatrixCoordinates(matrix) == (0..(matrix.width - 1)) \X (0..(matrix.height - 1))

MatrixNewHoldsDefault ==
    mem.last.op = "new" =>
        /\ mem.matrix.width = input[1] /\ mem.matrix.height = input[2]
        /\ Len(mem.matrix.data) = input[1] * input[2]
        /\ \A c \in MatrixCoordinates(mem.matrix) : MatrixCell(mem.matrix, c[1], c[2]) = input[3]

MatrixGetReturnsCell ==
    mem.last.op = "get" => result = Ret(MatrixCell(mem.matrix, mem.last.x, mem.last.y))

MatrixSetEffect ==
    mem'.last.op = "set" =>
        /\ mem'.matrix.width = mem.matrix.width /\ mem'.matrix.height = mem.matrix.height
        /\ Len(mem'.matrix.data) = Len(mem.matrix.data)
        /\ Matrix_get(mem'.matrix, mem'.last.x, mem'.last.y) = mem'.last.v
        /\ \A c \in MatrixCoordinates(mem.matrix) :
              MatrixCell(mem'.matrix, c[1], c[2]) =
                 IF c = <<mem'.last.x, mem'.last.y>> THEN mem'.last.v
                 ELSE MatrixCell(mem.matrix, c[1], c[2])

MatrixSwapEffect ==
    mem'.last.op = "swap" =>
        /\ mem'.matrix.width = mem.matrix.width /\ mem'.matrix.height = mem.matrix.height
        /\ Len(mem'.matrix.data) = Len(mem.matrix.data)
        /\ \A c \in MatrixCoordinates(mem.matrix) :
              MatrixCell(mem'.matrix, c[1], c[2]) =
                 IF c = <<mem'.last.x1, mem'.last.y1>>
                 THEN MatrixCell(mem.matrix, mem'.last.x2, mem'.last.y2)
                 ELSE IF c = <<mem'.last.x2, mem'.last.y2>>
                 THEN MatrixCell(mem.matrix, mem'.last.x1, mem'.last.y1)
                 ELSE MatrixCell(mem.matrix, c[1], c[2])

\* C19: a new matrix of width w and height h holds w * h cells equal to the
\* default; for coordinates in range, after set(x, y, v) get(x, y) returns v
\* and every other cell, the width and the height are unchanged; swap
\* exchanges the contents of exactly its two cells and leaves the others.
C19_MatrixContract ==
    /\ [](MatrixNewHoldsDefault /\ MatrixGetReturnsCell)
    /\ [][MatrixSetEffect /\ MatrixSwapEffect]_vars

\* two cells that differed have been swapped
C19_SwappedDifferentCells ==
    /\ mem.last.op = "swap"
    /\ mem.matrix.width = 3 /\ mem.matrix.height = 2
    /\ <<mem.last.x1, mem.last.y1>> = <<2, 0>> /\ <<mem.last.x2, mem.last.y2>> = <<0, 1>>
    /\ mem.matrix.data = <<0, 0, 0, 1, 0, 0>>

\* the cells of the column or row of the iterator, as indices into data, from
\* its low end to its high end
MatrixLine(matrix, it) ==
    IF it.kind = "Col"
    THEN [k \in 1..matrix.height |-> it.x + (k - 1) * matrix.width]
    ELSE [k \in 1..matrix.width |-> (k - 1) + it.y * matrix.width]

MatrixLow(it) == IF it.kind = "Col" THEN it.y_low ELSE it.x_low
MatrixHigh(it) == IF it.kind = "Col" THEN it.y_high ELSE it.x_high
MatrixSizeHint(it) == IF it.kind = "Col" THEN Col_size_hint(it) ELSE Row_size_hint(it)

\* the items yielded by calls of op, in the order of the calls
MatrixYieldedBy(op) == SelectSeq(mem.yielded, LAMBDA item : item.op = op)

\* C20: under any interleaving of next and next_back the iterator of col(x)
\* (of row(y)) yields every cell of the column (row) exactly once, next from
\* the low end upwards and next_back from the high end downwards, and None on
\* every call after that; the low bound never exceeds the high bound and
\* size_hint is exactly the number of cells not yet yielded.
C20_IteratorYieldsLineOnce ==
    pc = "iterator" =>
        LET it == mem.it.val
            line == MatrixLine(mem.matrix, it)
            front == MatrixYieldedBy("next")
            back == MatrixYieldedBy("next_back")
            remaining == Len(line) - Len(mem.yielded)
        IN /\ MatrixLow(it) <= MatrixHigh(it)
           /\ MatrixSizeHint(it) = <<remaining, Some(remaining)>>
           /\ remaining >= 0
           /\ \A k \in 1..Len(front) : front[k].index = line[k]
           /\ \A k \in 1..Len(back) : back[k].index = line[Len(line) + 1 - k]
           /\ \A k, l \in 1..Len(mem.yielded) :
                 k # l => mem.yielded[k].index # mem.yielded[l].index
           /\ mem.last.op \in {"next", "next_back"} =>
                 IF result.some
                 THEN /\ result.val.index = mem.yielded[Len(mem.yielded)].index
                      /\ result.val.val = mem.matrix.data[result.val.index + 1]
                 ELSE remaining = 0

\* a column of two cells was yielded from both ends and the next call gave None
C20_ColumnYieldedFromBothEnds ==
    /\ pc = "iterator" /\ mem.it.val.kind = "Col"
    /\ mem.matrix.width = 3 /\ mem.it.val.x = 1
    /\ mem.yielded = <<[op |-> "next_back", index |-> 4], [op |-> "next", index |-> 1]>>
    /\ mem.last.op = "next" /\ result = None

=============================================================================
